---- MODULE Spec2Model ----
(***************************************************************************)
(* Our-Lang front end (src/semantic_analyzer.cpp): the symbol table, the   *)
(* recursive-descent parser and the semantic analyzer, as state machines.  *)
(*                                                                         *)
(*   SpecTable    the SymbolTable's operations called in any order         *)
(*   SpecAnalyze  SemanticAnalyzer::analyze walking a program: the program *)
(*                is the sequence of statements the actions are given, and *)
(*                ctx holds the pending epilogues of the open function,    *)
(*                if and loop bodies (the C++ call stack)                  *)
(*   SpecCalls, SpecAssign, SpecConditions, SpecBuiltins, SpecArithmetic,  *)
(*   SpecReturns  the same walk over programs of other statement forms     *)
(*   SpecParse    Parser::parse applied to a token sequence                *)
(*   SpecPrecedence  Parser::parse applied to one expression statement     *)
(*   SpecLexer    Lexer::nextToken called repeatedly on a source text      *)
(***************************************************************************)
EXTENDS Integers, Sequences, FiniteSets, TLC

VARIABLES
    scopes,             \* SymbolTable::scopes, index 1 is the global scope
    ret,                \* SpecTable: what the last SymbolTable call returned
    errors,             \* SemanticAnalyzer::errors
    inFunction,         \* SemanticAnalyzer::inFunction
    currentReturnType,  \* SemanticAnalyzer::currentReturnType
    ctx,                \* open bodies: the analyze* calls waiting for their body
    pc,                 \* "run" while analyze traverses, "done" once it returned
    result,             \* the value analyze returned
    declared,           \* history: name -> parameter count of each `kaam` seen
    tokens,             \* Parser::tokens, the closing EOF token included
    parsed,             \* SpecParse: what Parser::parse produced for tokens
    source,             \* Lexer::source, a sequence of characters
    lexer,              \* Lexer::pos, line and column
    lexed               \* SpecLexer: the token the last nextToken call returned

vars == <<scopes, ret, errors, inFunction, currentReturnType, ctx, pc, result,
          declared, tokens, parsed, source, lexer, lexed>>

tableVars == <<scopes, ret>>
analyzerVars == <<errors, inFunction, currentReturnType, ctx, pc, result, declared>>
parserVars == <<tokens, parsed>>
lexerVars == <<source, lexer, lexed>>

(***************************************************************************)
(* Bounds of the model.                                                    *)
(***************************************************************************)
MaxScopes == 3
MaxErrors == 2
MaxTokens == 5
MaxSource == 3
MaxOperands == 3

(***************************************************************************)
(* Type system: DataType, named as dataTypeToString prints it.             *)
(***************************************************************************)
DT_UNKNOWN == "unknown"
DT_NUMBER == "number"
DT_STRING == "string"
DT_BOOLEAN == "boolean"
DT_ARRAY == "array"
DT_OBJECT == "object"
DT_VOID == "void"
DT_NIL == "nil"

(***************************************************************************)
(* Symbol table.                                                           *)
(***************************************************************************)
\* Symbol(n, t, func = false, init = true): paramTypes empty, returnType DT_VOID.
Symbol(n, t, func, init) ==
    [name |-> n, type |-> t, isFunction |-> func, isInitialized |-> init,
     paramTypes |-> <<>>, returnType |-> DT_VOID]

EmptyScope == [n \in {} |-> Symbol("", DT_UNKNOWN, FALSE, TRUE)]

\* scope[name] = sym of std::unordered_map: insert or overwrite.
Put(scope, n, sym) ==
    [m \in (DOMAIN scope) \cup {n} |-> IF m = n THEN sym ELSE scope[m]]

EnterScope(s) == Append(s, EmptyScope)

\* A mutant of ExitScope: the sole remaining scope is emptied.
ExitScopeClearing(s) == IF Len(s) > 1 THEN SubSeq(s, 1, Len(s) - 1) ELSE <<EmptyScope>>

ExitScope(s) == IF Len(s) > 1 THEN SubSeq(s, 1, Len(s) - 1) ELSE s

\* A mutant of Define: refuses a name that any scope on the stack binds.
DefineAnyScope(s, n, t, func, init) ==
    IF \E i \in 1..Len(s) : n \in DOMAIN s[i]
    THEN [ok |-> FALSE, scopes |-> s]
    ELSE [ok |-> TRUE,
          scopes |-> [s EXCEPT ![Len(s)] = Put(@, n, Symbol(n, t, func, init))]]

\* A mutant of Define: never refuses, overwrites the innermost binding.
DefineOverwrite(s, n, t, func, init) ==
    [ok |-> TRUE,
     scopes |-> [s EXCEPT ![Len(s)] = Put(@, n, Symbol(n, t, func, init))]]

Define(s, n, t, func, init) ==
    IF n \in DOMAIN s[Len(s)]
    THEN [ok |-> FALSE, scopes |-> s]
    ELSE [ok |-> TRUE,
          scopes |-> [s EXCEPT ![Len(s)] = Put(@, n, Symbol(n, t, func, init))]]

\* The loop of lookup and update: the innermost index at or below i binding n,
\* 0 when there is none.
RECURSIVE FindScope(_, _, _)
FindScope(s, n, i) ==
    IF i = 0 THEN 0
    ELSE IF n \in DOMAIN s[i] THEN i
    ELSE FindScope(s, n, i - 1)

\* A mutant of Lookup's search: outermost scope first.
RECURSIVE FindScopeOutermost(_, _, _)
FindScopeOutermost(s, n, i) ==
    IF i = 0 THEN 0
    ELSE IF n \in DOMAIN s[Len(s) + 1 - i] THEN Len(s) + 1 - i
    ELSE FindScopeOutermost(s, n, i - 1)

\* A mutant of Lookup: the first match from the global scope upwards wins.
LookupOutermost(s, n, symbol) ==
    LET i == FindScopeOutermost(s, n, Len(s))
    IN  IF i = 0 THEN [found |-> FALSE, symbol |-> symbol]
        ELSE [found |-> TRUE, symbol |-> s[i][n]]

\* lookup(name, symbol): symbol is left as passed when nothing is found.
Lookup(s, n, symbol) ==
    LET i == FindScope(s, n, Len(s))
    IN  IF i = 0 THEN [found |-> FALSE, symbol |-> symbol]
        ELSE [found |-> TRUE, symbol |-> s[i][n]]

\* A mutant of Update: the binding marked initialized forgets its type.
UpdateRetyping(s, n) ==
    LET i == FindScope(s, n, Len(s))
    IN  IF i = 0 THEN [ok |-> FALSE, scopes |-> s]
        ELSE [ok |-> TRUE,
              scopes |-> [s EXCEPT ![i][n].isInitialized = TRUE,
                                   ![i][n].type = DT_UNKNOWN]]

Update(s, n) ==
    LET i == FindScope(s, n, Len(s))
    IN  IF i = 0 THEN [ok |-> FALSE, scopes |-> s]
        ELSE [ok |-> TRUE,
              scopes |-> [s EXCEPT ![i][n].isInitialized = TRUE]]

\* A mutant of AddFunctionSignature: the record goes to the innermost scope.
AddFunctionSignatureInnermost(s, n, params, returnType) ==
    LET sym == [Symbol(n, DT_VOID, TRUE, TRUE) EXCEPT
                    !.paramTypes = params, !.returnType = returnType]
    IN  [s EXCEPT ![Len(s)] = Put(@, n, sym)]

AddFunctionSignature(s, n, params, returnType) ==
    LET sym == [Symbol(n, DT_VOID, TRUE, TRUE) EXCEPT
                    !.paramTypes = params, !.returnType = returnType]
    IN  [s EXCEPT ![1] = Put(@, n, sym)]

InitBuiltins(s) ==
    LET s1 == AddFunctionSignature(s, "dekh", <<DT_UNKNOWN>>, DT_VOID)
        s2 == AddFunctionSignature(s1, "lou", <<DT_STRING>>, DT_NUMBER)
        s3 == AddFunctionSignature(s2, "nikal", <<DT_UNKNOWN>>, DT_NUMBER)
        s4 == AddFunctionSignature(s3, "band", <<>>, DT_VOID)
        s5 == AddFunctionSignature(s4, "abs", <<DT_NUMBER>>, DT_NUMBER)
        s6 == AddFunctionSignature(s5, "sqrt", <<DT_NUMBER>>, DT_NUMBER)
        s7 == AddFunctionSignature(s6, "pow", <<DT_NUMBER, DT_NUMBER>>, DT_NUMBER)
        s8 == AddFunctionSignature(s7, "max", <<DT_NUMBER, DT_NUMBER>>, DT_NUMBER)
        s9 == AddFunctionSignature(s8, "min", <<DT_NUMBER, DT_NUMBER>>, DT_NUMBER)
        s10 == AddFunctionSignature(s9, "round", <<DT_NUMBER>>, DT_NUMBER)
    IN  AddFunctionSignature(s10, "random", <<>>, DT_NUMBER)

\* SymbolTable(): one scope, then the builtins.
NewSymbolTable == InitBuiltins(<<EmptyScope>>)

(***************************************************************************)
(* SpecTable: the symbol table driven by arbitrary calls.                  *)
(***************************************************************************)
\* "x" is free at construction, "pow" is a builtin, "y" is never bound.
DefineNames == {"x"}
SignatureNames == {"x", "pow"}
LookupNames == {"x", "pow", "y"}
UpdateNames == {"x", "y"}
TableTypes == {DT_NUMBER, DT_STRING}
TableParams == {<<>>, <<DT_UNKNOWN>>}

NoSymbol == Symbol("", DT_UNKNOWN, FALSE, TRUE)
Ret(op, n, ok, sym) == [op |-> op, name |-> n, ok |-> ok, symbol |-> sym]
\* No call made yet.
NoRet == Ret("void", "", TRUE, NoSymbol)
\* enterScope, exitScope and addFunctionSignature return nothing: ret keeps
\* which of them was called, and on which name.
Returned(op, n) == Ret(op, n, TRUE, NoSymbol)

TableIdle == /\ scopes = NewSymbolTable
             /\ ret = NoRet

AnalyzerIdle == /\ errors = <<>>
                /\ inFunction = FALSE
                /\ currentReturnType = DT_VOID
                /\ ctx = <<>>
                /\ pc = "idle"
                /\ result = FALSE
                /\ declared = [n \in {} |-> 0]

ParserIdle == /\ tokens = <<>>
              /\ parsed = [ran |-> FALSE, ok |-> FALSE, statements |-> <<>>, msg |-> "",
                           at |-> "", line |-> -1]

\* Lexer(src) on the empty text, no token asked for yet.
LexerIdle == /\ source = <<>>
             /\ lexer = [pos |-> 0, line |-> 1, column |-> 1]
             /\ lexed = [type |-> "none", value |-> "", line |-> 0, column |-> 0]

TableInit == TableIdle /\ AnalyzerIdle /\ ParserIdle /\ LexerIdle

TEnterScope ==
    /\ Len(scopes) < MaxScopes
    /\ scopes' = EnterScope(scopes)
    /\ ret' = Returned("enterScope", "")
    /\ UNCHANGED <<analyzerVars, parserVars, lexerVars>>

TExitScope ==
    /\ scopes' = ExitScope(scopes)
    /\ ret' = Returned("exitScope", "")
    /\ UNCHANGED <<analyzerVars, parserVars, lexerVars>>

TDefine(n, t, init) ==
    LET d == Define(scopes, n, t, FALSE, init)
    IN  /\ scopes' = d.scopes
        /\ ret' = Ret("define", n, d.ok, NoSymbol)
        /\ UNCHANGED <<analyzerVars, parserVars, lexerVars>>

TLookup(n) ==
    LET l == Lookup(scopes, n, NoSymbol)
    IN  /\ ret' = Ret("lookup", n, l.found, l.symbol)
        /\ UNCHANGED <<scopes, analyzerVars, parserVars, lexerVars>>

TUpdate(n) ==
    LET u == Update(scopes, n)
    IN  /\ scopes' = u.scopes
        /\ ret' = Ret("update", n, u.ok, NoSymbol)
        /\ UNCHANGED <<analyzerVars, parserVars, lexerVars>>

TAddFunctionSignature(n, params, rt) ==
    /\ scopes' = AddFunctionSignature(scopes, n, params, rt)
    /\ ret' = Returned("addFunctionSignature", n)
    /\ UNCHANGED <<analyzerVars, parserVars, lexerVars>>

TableNext ==
    \/ TEnterScope
    \/ TExitScope
    \/ \E n \in DefineNames, t \in TableTypes, init \in BOOLEAN : TDefine(n, t, init)
    \/ \E n \in LookupNames : TLookup(n)
    \/ \E n \in UpdateNames : TUpdate(n)
    \/ \E n \in SignatureNames, p \in TableParams : TAddFunctionSignature(n, p, DT_VOID)

SpecTable == TableInit /\ [][TableNext]_vars

(***************************************************************************)
(* Syntax tree.  Every expression node has the same fields: k the node     *)
(* class, name the identifier or literal text, op the operator, kids the   *)
(* owned sub-expressions, keys the member names of an object literal.      *)
(***************************************************************************)
Expr(k, name, op, kids, keys) ==
    [k |-> k, name |-> name, op |-> op, kids |-> kids, keys |-> keys]

NoExpr == Expr("nullptr", "", "", <<>>, <<>>)
NumberLiteral(v) == Expr("NumberLiteral", v, "", <<>>, <<>>)
StringLiteral(v) == Expr("StringLiteral", v, "", <<>>, <<>>)
BooleanLiteral(v) == Expr("BooleanLiteral", v, "", <<>>, <<>>)
Identifier(n) == Expr("Identifier", n, "", <<>>, <<>>)
BinaryOp(l, o, r) == Expr("BinaryOp", "", o, <<l, r>>, <<>>)
UnaryOp(o, e) == Expr("UnaryOp", "", o, <<e>>, <<>>)
Assignment(n, v) == Expr("Assignment", n, "", <<v>>, <<>>)
FunctionCall(n, args) == Expr("FunctionCall", n, "", args, <<>>)
ArrayLiteral(elements) == Expr("ArrayLiteral", "", "", elements, <<>>)
ObjectLiteral(keys, values) == Expr("ObjectLiteral", "", "", values, keys)
ArrayAccess(n, index) == Expr("ArrayAccess", n, "", <<index>>, <<>>)

(***************************************************************************)
(* Semantic analyzer: expressions.  st = [scopes, errors] is the part of   *)
(* the analyzer an expression can change; every analyze* returns the type  *)
(* it synthesized and the st it left.  A diagnostic is a record standing   *)
(* for the message string: kind names the message, the other fields are    *)
(* the values the code splices into it.                                    *)
(***************************************************************************)
Err(kind, name, t1, t2, n1, n2) ==
    [kind |-> kind, name |-> name, t1 |-> t1, t2 |-> t2, n1 |-> n1, n2 |-> n2]

Push(st, e) == [st EXCEPT !.errors = Append(@, e)]

Typed(t, st) == [type |-> t, st |-> st]

RECURSIVE AnalyzeExpression(_, _)
RECURSIVE AnalyzeArguments(_, _, _)
RECURSIVE AnalyzeNumberArguments(_, _, _, _)
RECURSIVE AnalyzeNumberArgumentsUnknownOnly(_, _, _, _)

\* A mutant of AnalyzeBinaryOp: arithmetic takes Void operands as errors.
AnalyzeBinaryOpNoVoid(binOp, st) ==
    LET l == AnalyzeExpression(binOp.kids[1], st)
        r == AnalyzeExpression(binOp.kids[2], l.st)
        op == binOp.op
        s1 == IF l.type \notin {DT_NUMBER, DT_UNKNOWN}
              THEN Push(r.st, Err("LeftOperandNumber", op, "", "", 0, 0))
              ELSE r.st
        s2 == IF r.type \notin {DT_NUMBER, DT_UNKNOWN}
              THEN Push(s1, Err("RightOperandNumber", op, "", "", 0, 0))
              ELSE s1
    IN  Typed(IF op \in {"+", "-", "*", "/", "%"} THEN DT_NUMBER ELSE DT_BOOLEAN, s2)

AnalyzeBinaryOp(binOp, st) ==
    LET l == AnalyzeExpression(binOp.kids[1], st)
        r == AnalyzeExpression(binOp.kids[2], l.st)
        leftType == l.type
        rightType == r.type
        op == binOp.op
    IN  IF op \in {"+", "-", "*", "/", "%"} THEN
            LET s1 == IF leftType \notin {DT_NUMBER, DT_UNKNOWN, DT_VOID}
                      THEN Push(r.st, Err("LeftOperandNumber", op, "", "", 0, 0))
                      ELSE r.st
                s2 == IF rightType \notin {DT_NUMBER, DT_UNKNOWN, DT_VOID}
                      THEN Push(s1, Err("RightOperandNumber", op, "", "", 0, 0))
                      ELSE s1
            IN  Typed(DT_NUMBER, s2)
        ELSE IF op \in {"<", "<=", ">", ">="} THEN
            LET s1 == IF leftType \notin {DT_NUMBER, DT_UNKNOWN}
                      THEN Push(r.st, Err("LeftOperandNumber", op, "", "", 0, 0))
                      ELSE r.st
                s2 == IF rightType \notin {DT_NUMBER, DT_UNKNOWN}
                      THEN Push(s1, Err("RightOperandNumber", op, "", "", 0, 0))
                      ELSE s1
            IN  Typed(DT_BOOLEAN, s2)
        ELSE IF op \in {"==", "!="} THEN
            Typed(DT_BOOLEAN, r.st)
        ELSE IF op \in {"&&", "||"} THEN
            LET s1 == IF leftType \notin {DT_BOOLEAN, DT_UNKNOWN}
                      THEN Push(r.st, Err("LeftOperandBoolean", op, "", "", 0, 0))
                      ELSE r.st
                s2 == IF rightType \notin {DT_BOOLEAN, DT_UNKNOWN}
                      THEN Push(s1, Err("RightOperandBoolean", op, "", "", 0, 0))
                      ELSE s1
            IN  Typed(DT_BOOLEAN, s2)
        ELSE Typed(DT_UNKNOWN, r.st)

AnalyzeUnaryOp(unaryOp, st) ==
    LET o == AnalyzeExpression(unaryOp.kids[1], st)
        operandType == o.type
    IN  IF unaryOp.op = "-" THEN
            Typed(DT_NUMBER,
                  IF operandType \notin {DT_NUMBER, DT_UNKNOWN}
                  THEN Push(o.st, Err("OperandMinus", "-", "", "", 0, 0))
                  ELSE o.st)
        ELSE IF unaryOp.op = "!" THEN
            Typed(DT_BOOLEAN,
                  IF operandType \notin {DT_BOOLEAN, DT_UNKNOWN}
                  THEN Push(o.st, Err("OperandNot", "!", "", "", 0, 0))
                  ELSE o.st)
        ELSE Typed(DT_UNKNOWN, o.st)

\* A mutant of AnalyzeAssignment: an Unknown value type is a mismatch too.
AnalyzeAssignmentStrict(assign, st) ==
    LET l == Lookup(st.scopes, assign.name, Symbol("", DT_UNKNOWN, FALSE, TRUE))
        sym == l.symbol
    IN  IF ~l.found THEN
            Typed(DT_UNKNOWN,
                  Push(st, Err("UndefinedVariable", assign.name, "", "", 0, 0)))
        ELSE
            LET v == AnalyzeExpression(assign.kids[1], st)
                valueType == v.type
                s1 == IF sym.type # DT_UNKNOWN /\ sym.type # valueType
                      THEN Push(v.st, Err("TypeMismatch", assign.name,
                                          sym.type, valueType, 0, 0))
                      ELSE v.st
                s2 == [s1 EXCEPT !.scopes = Update(s1.scopes, assign.name).scopes]
            IN  Typed(valueType, s2)

AnalyzeAssignment(assign, st) ==
    LET l == Lookup(st.scopes, assign.name, Symbol("", DT_UNKNOWN, FALSE, TRUE))
        sym == l.symbol
    IN  IF ~l.found THEN
            Typed(DT_UNKNOWN,
                  Push(st, Err("UndefinedVariable", assign.name, "", "", 0, 0)))
        ELSE
            LET v == AnalyzeExpression(assign.kids[1], st)
                valueType == v.type
                s1 == IF /\ sym.type # DT_UNKNOWN
                         /\ valueType # DT_UNKNOWN
                         /\ sym.type # valueType
                      THEN Push(v.st, Err("TypeMismatch", assign.name,
                                          sym.type, valueType, 0, 0))
                      ELSE v.st
                s2 == [s1 EXCEPT !.scopes = Update(s1.scopes, assign.name).scopes]
            IN  Typed(valueType, s2)

AnalyzeFunctionCall(funcCall, st) ==
    LET l == Lookup(st.scopes, funcCall.name, Symbol("", DT_VOID, FALSE, TRUE))
        funcSym == l.symbol
        name == funcCall.name
        args == funcCall.kids
    IN  IF ~l.found THEN
            Typed(DT_UNKNOWN, Push(st, Err("UndefinedFunction", name, "", "", 0, 0)))
        ELSE IF ~funcSym.isFunction THEN
            Typed(DT_UNKNOWN, Push(st, Err("NotAFunction", name, "", "", 0, 0)))
        ELSE IF name = "dekh" THEN
            Typed(DT_VOID, AnalyzeArguments(args, 1, st))
        ELSE IF name = "lou" THEN
            Typed(DT_NUMBER,
                  IF args # <<>> THEN AnalyzeExpression(args[1], st).st ELSE st)
        ELSE IF name = "nikal" THEN
            Typed(DT_NUMBER,
                  IF Len(args) # 1
                  THEN Push(st, Err("NikalArity", name, "", "", 1, Len(args)))
                  ELSE AnalyzeExpression(args[1], st).st)
        ELSE IF name = "band" THEN
            Typed(DT_VOID, st)
        ELSE IF name \in {"abs", "sqrt", "round"} THEN
            Typed(DT_NUMBER,
                  IF Len(args) # 1
                  THEN Push(st, Err("BuiltinArity", name, "", "", 1, 0))
                  ELSE LET a == AnalyzeExpression(args[1], st)
                       IN  IF a.type \notin {DT_NUMBER, DT_UNKNOWN}
                           THEN Push(a.st, Err("BuiltinArgument", name, "", "", 0, 0))
                           ELSE a.st)
        ELSE IF name \in {"pow", "max", "min"} THEN
            Typed(DT_NUMBER,
                  IF Len(args) # 2
                  THEN Push(st, Err("BuiltinArity", name, "", "", 2, 0))
                  ELSE AnalyzeNumberArguments(name, args, 1, st))
        ELSE IF name = "random" THEN
            Typed(DT_NUMBER, st)
        ELSE
            LET s1 == IF Len(args) # Len(funcSym.paramTypes)
                      THEN Push(st, Err("FunctionArity", name, "", "",
                                        Len(funcSym.paramTypes), Len(args)))
                      ELSE st
            IN  Typed(funcSym.returnType, AnalyzeArguments(args, 1, s1))

\* for (auto& arg : args) analyzeExpression(arg), from args[i] on.
AnalyzeArguments(args, i, st) ==
    IF i > Len(args) THEN st
    ELSE AnalyzeArguments(args, i + 1, AnalyzeExpression(args[i], st).st)

\* A mutant of AnalyzeNumberArguments: only an Unknown argument is accepted.
AnalyzeNumberArgumentsUnknownOnly(name, args, i, st) ==
    IF i > Len(args) THEN st
    ELSE LET a == AnalyzeExpression(args[i], st)
             s1 == IF a.type # DT_UNKNOWN
                   THEN Push(a.st, Err("BuiltinArgument", name, "", "", 0, 0))
                   ELSE a.st
         IN  AnalyzeNumberArgumentsUnknownOnly(name, args, i + 1, s1)

\* The loop of the pow/max/min branch: each argument analyzed, then checked.
AnalyzeNumberArguments(name, args, i, st) ==
    IF i > Len(args) THEN st
    ELSE LET a == AnalyzeExpression(args[i], st)
             s1 == IF a.type \notin {DT_NUMBER, DT_UNKNOWN}
                   THEN Push(a.st, Err("BuiltinArgument", name, "", "", 0, 0))
                   ELSE a.st
         IN  AnalyzeNumberArguments(name, args, i + 1, s1)

AnalyzeArrayAccess(arrAccess, st) ==
    LET l == Lookup(st.scopes, arrAccess.name, Symbol("", DT_UNKNOWN, FALSE, TRUE))
        sym == l.symbol
    IN  IF l.found THEN
            LET s1 == IF sym.type # DT_ARRAY /\ sym.type # DT_UNKNOWN
                      THEN Push(st, Err("CannotIndex", arrAccess.name, "", "", 0, 0))
                      ELSE st
                ix == AnalyzeExpression(arrAccess.kids[1], s1)
                s2 == IF ix.type # DT_NUMBER /\ ix.type # DT_UNKNOWN
                      THEN Push(ix.st, Err("ArrayIndex", "", ix.type, "", 0, 0))
                      ELSE ix.st
            IN  Typed(DT_UNKNOWN, s2)
        ELSE Typed(DT_UNKNOWN,
                   Push(st, Err("UndefinedArray", arrAccess.name, "", "", 0, 0)))

\* The type stamp written on an Identifier node (expr->type) is not kept: the
\* analyzer never reads it back.
AnalyzeExpression(expr, st) ==
    IF expr.k = "nullptr" THEN Typed(DT_UNKNOWN, st)
    ELSE IF expr.k = "NumberLiteral" THEN Typed(DT_NUMBER, st)
    ELSE IF expr.k = "StringLiteral" THEN Typed(DT_STRING, st)
    ELSE IF expr.k = "BooleanLiteral" THEN Typed(DT_BOOLEAN, st)
    ELSE IF expr.k = "Identifier" THEN
        LET l == Lookup(st.scopes, expr.name, Symbol("", DT_UNKNOWN, FALSE, TRUE))
        IN  IF l.found THEN Typed(l.symbol.type, st)
            ELSE Typed(DT_UNKNOWN,
                       Push(st, Err("UndefinedVariable", expr.name, "", "", 0, 0)))
    ELSE IF expr.k = "BinaryOp" THEN AnalyzeBinaryOp(expr, st)
    ELSE IF expr.k = "UnaryOp" THEN AnalyzeUnaryOp(expr, st)
    ELSE IF expr.k = "Assignment" THEN AnalyzeAssignment(expr, st)
    ELSE IF expr.k = "FunctionCall" THEN AnalyzeFunctionCall(expr, st)
    ELSE IF expr.k = "ArrayLiteral" THEN Typed(DT_ARRAY, st)
    ELSE IF expr.k = "ObjectLiteral" THEN Typed(DT_OBJECT, st)
    ELSE IF expr.k = "ArrayAccess" THEN AnalyzeArrayAccess(expr, st)
    ELSE Typed(DT_UNKNOWN, st)

(***************************************************************************)
(* Semantic analyzer: statements (SpecAnalyze).  analyze walks the tree    *)
(* depth first; the walk is the sequence of actions below.  A statement    *)
(* without a body is one action.  A statement with a body is the action of *)
(* its prologue, which pushes a frame on ctx, the actions of the body's    *)
(* statements, and the action of its epilogue, which pops the frame: ctx   *)
(* is the chain of analyze* calls that have not returned yet, and analyze  *)
(* itself returns (AnalyzeMainCheck) only when that chain is empty.        *)
(***************************************************************************)
Frame(kind, prevInFunction, prevReturnType, nonEmpty) ==
    [kind |-> kind, prevInFunction |-> prevInFunction,
     prevReturnType |-> prevReturnType, nonEmpty |-> nonEmpty]

\* The caller's loop passes a statement to analyzeStatement: an else-branch
\* being walked now holds a statement.
Touch(c) ==
    IF c # <<>> /\ c[Len(c)].kind = "else"
    THEN [c EXCEPT ![Len(c)].nonEmpty = TRUE]
    ELSE c

St == [scopes |-> scopes, errors |-> errors]

NoneDeclared == [n \in {} |-> 0]

RECURSIVE UnknownTypes(_)
\* std::vector<DataType>(n, DataType::UNKNOWN)
UnknownTypes(n) == IF n = 0 THEN <<>> ELSE Append(UnknownTypes(n - 1), DT_UNKNOWN)

RECURSIVE DefineParameters(_, _, _)
\* for (param : params) symbolTable.define(param, UNKNOWN), the result unread.
DefineParameters(params, i, s) ==
    IF i > Len(params) THEN s
    ELSE DefineParameters(params, i + 1,
                          Define(s, params[i], DT_UNKNOWN, FALSE, TRUE).scopes)

AnalyzeInit ==
    /\ scopes = NewSymbolTable
    /\ ret = NoRet
    /\ errors = <<>>
    /\ inFunction = FALSE
    /\ currentReturnType = DT_VOID
    /\ ctx = <<>>
    /\ pc = "run"
    /\ result = FALSE
    /\ declared = NoneDeclared
    /\ ParserIdle
    /\ LexerIdle

AnalyzeVariableDeclaration(name, initializer) ==
    /\ pc = "run"
    /\ LET r == AnalyzeExpression(initializer, St)
           varType == r.type
           d == Define(r.st.scopes, name, varType, FALSE, TRUE)
           errs == IF d.ok THEN r.st.errors
                   ELSE Append(r.st.errors, Err("AlreadyDefined", name, "", "", 0, 0))
       IN  /\ Len(errs) <= MaxErrors
           /\ scopes' = d.scopes
           /\ errors' = errs
    /\ ctx' = Touch(ctx)
    /\ UNCHANGED <<inFunction, currentReturnType, pc, result, declared, ret, parserVars, lexerVars>>

AnalyzeExpressionStatement(expr) ==
    /\ pc = "run"
    /\ LET r == AnalyzeExpression(expr, St)
       IN  /\ Len(r.st.errors) <= MaxErrors
           /\ scopes' = r.st.scopes
           /\ errors' = r.st.errors
    /\ ctx' = Touch(ctx)
    /\ UNCHANGED <<inFunction, currentReturnType, pc, result, declared, ret, parserVars, lexerVars>>

AnalyzeReturnStatement(value) ==
    /\ pc = "run"
    /\ LET st == IF ~inFunction
                 THEN Push(St, Err("ReturnOutsideFunction", "", "", "", 0, 0))
                 ELSE AnalyzeExpression(value, St).st
       IN  /\ Len(st.errors) <= MaxErrors
           /\ scopes' = st.scopes
           /\ errors' = st.errors
    /\ ctx' = Touch(ctx)
    /\ UNCHANGED <<inFunction, currentReturnType, pc, result, declared, ret, parserVars, lexerVars>>

\* analyzeFunctionDeclaration up to its body.
AnalyzeFunctionDeclarationEnter(name, params) ==
    /\ pc = "run"
    /\ Len(scopes) < MaxScopes
    /\ LET paramTypes == UnknownTypes(Len(params))
           s1 == AddFunctionSignature(scopes, name, paramTypes, DT_VOID)
       IN  scopes' = DefineParameters(params, 1, EnterScope(s1))
    /\ ctx' = Append(Touch(ctx), Frame("function", inFunction, currentReturnType, FALSE))
    /\ inFunction' = TRUE
    /\ currentReturnType' = DT_UNKNOWN
    /\ declared' = Put(declared, name, Len(params))
    /\ UNCHANGED <<errors, pc, result, ret, parserVars, lexerVars>>

\* A mutant of AnalyzeFunctionDeclarationExit: inFunction is cleared, not
\* restored.
AnalyzeFunctionDeclarationExitClearing ==
    /\ pc = "run"
    /\ ctx # <<>>
    /\ ctx[Len(ctx)].kind = "function"
    /\ inFunction' = FALSE
    /\ currentReturnType' = ctx[Len(ctx)].prevReturnType
    /\ scopes' = ExitScope(scopes)
    /\ ctx' = SubSeq(ctx, 1, Len(ctx) - 1)
    /\ UNCHANGED <<errors, pc, result, declared, ret, parserVars, lexerVars>>

\* analyzeFunctionDeclaration after its body.
AnalyzeFunctionDeclarationExit ==
    /\ pc = "run"
    /\ ctx # <<>>
    /\ ctx[Len(ctx)].kind = "function"
    /\ inFunction' = ctx[Len(ctx)].prevInFunction
    /\ currentReturnType' = ctx[Len(ctx)].prevReturnType
    /\ scopes' = ExitScope(scopes)
    /\ ctx' = SubSeq(ctx, 1, Len(ctx) - 1)
    /\ UNCHANGED <<errors, pc, result, declared, ret, parserVars, lexerVars>>

\* A mutant of AnalyzeIfStatementEnter: a Void condition is flagged too.
AnalyzeIfStatementEnterStrict(condition) ==
    /\ pc = "run"
    /\ Len(scopes) < MaxScopes
    /\ LET c == AnalyzeExpression(condition, St)
           condType == c.type
           st == IF condType \notin {DT_BOOLEAN, DT_UNKNOWN}
                 THEN Push(c.st, Err("IfCondition", "", condType, "", 0, 0))
                 ELSE c.st
       IN  /\ Len(st.errors) <= MaxErrors
           /\ scopes' = EnterScope(st.scopes)
           /\ errors' = st.errors
    /\ ctx' = Append(Touch(ctx), Frame("then", inFunction, currentReturnType, FALSE))
    /\ UNCHANGED <<inFunction, currentReturnType, pc, result, declared, ret, parserVars, lexerVars>>

\* analyzeIfStatement up to the then-branch.
AnalyzeIfStatementEnter(condition) ==
    /\ pc = "run"
    /\ Len(scopes) < MaxScopes
    /\ LET c == AnalyzeExpression(condition, St)
           condType == c.type
           st == IF condType \notin {DT_BOOLEAN, DT_UNKNOWN, DT_VOID}
                 THEN Push(c.st, Err("IfCondition", "", condType, "", 0, 0))
                 ELSE c.st
       IN  /\ Len(st.errors) <= MaxErrors
           /\ scopes' = EnterScope(st.scopes)
           /\ errors' = st.errors
    /\ ctx' = Append(Touch(ctx), Frame("then", inFunction, currentReturnType, FALSE))
    /\ UNCHANGED <<inFunction, currentReturnType, pc, result, declared, ret, parserVars, lexerVars>>

\* analyzeIfStatement between the then-branch and a non-empty else-branch.
AnalyzeIfStatementElse ==
    /\ pc = "run"
    /\ ctx # <<>>
    /\ ctx[Len(ctx)].kind = "then"
    /\ scopes' = EnterScope(ExitScope(scopes))
    /\ ctx' = [ctx EXCEPT ![Len(ctx)].kind = "else"]
    /\ UNCHANGED <<errors, inFunction, currentReturnType, pc, result, declared, ret,
                   parserVars, lexerVars>>

\* analyzeIfStatement after its last branch.
AnalyzeIfStatementExit ==
    /\ pc = "run"
    /\ ctx # <<>>
    /\ \/ ctx[Len(ctx)].kind = "then"
       \/ ctx[Len(ctx)].kind = "else" /\ ctx[Len(ctx)].nonEmpty
    /\ scopes' = ExitScope(scopes)
    /\ ctx' = SubSeq(ctx, 1, Len(ctx) - 1)
    /\ UNCHANGED <<errors, inFunction, currentReturnType, pc, result, declared, ret,
                   parserVars, lexerVars>>

\* analyzeLoopStatement up to its body.
AnalyzeLoopStatementEnter(condition) ==
    /\ pc = "run"
    /\ Len(scopes) < MaxScopes
    /\ LET c == AnalyzeExpression(condition, St)
           condType == c.type
           st == IF condType \notin {DT_BOOLEAN, DT_UNKNOWN, DT_VOID}
                 THEN Push(c.st, Err("LoopCondition", "", condType, "", 0, 0))
                 ELSE c.st
       IN  /\ Len(st.errors) <= MaxErrors
           /\ scopes' = EnterScope(st.scopes)
           /\ errors' = st.errors
    /\ ctx' = Append(Touch(ctx), Frame("loop", inFunction, currentReturnType, FALSE))
    /\ UNCHANGED <<inFunction, currentReturnType, pc, result, declared, ret, parserVars, lexerVars>>

\* A mutant of AnalyzeLoopStatementExit: the body's scope is not popped.
AnalyzeLoopStatementExitNoPop ==
    /\ pc = "run"
    /\ ctx # <<>>
    /\ ctx[Len(ctx)].kind = "loop"
    /\ scopes' = scopes
    /\ ctx' = SubSeq(ctx, 1, Len(ctx) - 1)
    /\ UNCHANGED <<errors, inFunction, currentReturnType, pc, result, declared, ret,
                   parserVars, lexerVars>>

\* analyzeLoopStatement after its body.
AnalyzeLoopStatementExit ==
    /\ pc = "run"
    /\ ctx # <<>>
    /\ ctx[Len(ctx)].kind = "loop"
    /\ scopes' = ExitScope(scopes)
    /\ ctx' = SubSeq(ctx, 1, Len(ctx) - 1)
    /\ UNCHANGED <<errors, inFunction, currentReturnType, pc, result, declared, ret,
                   parserVars, lexerVars>>

\* A mutant of AnalyzeMainCheck: true whenever main is found.
AnalyzeMainCheckFound ==
    /\ pc = "run"
    /\ ctx = <<>>
    /\ LET l == Lookup(scopes, "main", Symbol("", DT_VOID, FALSE, TRUE))
       IN  IF ~l.found
           THEN /\ errors' = Append(errors, Err("MainNotFound", "main", "", "", 0, 0))
                /\ result' = FALSE
           ELSE /\ errors' = errors
                /\ result' = TRUE
    /\ pc' = "done"
    /\ UNCHANGED <<scopes, inFunction, currentReturnType, ctx, declared, ret, parserVars, lexerVars>>

\* analyze after the loop over the program's statements: no analyze* throws on
\* a tree the parser built, so the catch clause is never entered.
AnalyzeMainCheck ==
    /\ pc = "run"
    /\ ctx = <<>>
    /\ LET l == Lookup(scopes, "main", Symbol("", DT_VOID, FALSE, TRUE))
       IN  IF ~l.found
           THEN /\ errors' = Append(errors, Err("MainNotFound", "main", "", "", 0, 0))
                /\ result' = FALSE
           ELSE /\ errors' = errors
                /\ result' = (errors = <<>>)
    /\ pc' = "done"
    /\ UNCHANGED <<scopes, inFunction, currentReturnType, ctx, declared, ret, parserVars, lexerVars>>

\* SpecAnalyze walks programs of variable declarations, expression statements,
\* function declarations, ifs and loops nested in each other, over these names
\* and expressions: "x" is declared as a variable, a parameter or a function,
\* "y" is never declared.
Num == NumberLiteral("1")
Str == StringLiteral("s")
VarNames == {"x"}
FuncNames == {"main", "x"}
ParamLists == {<<>>, <<"x">>}
Initializers == {NoExpr, ArrayLiteral(<<Identifier("y")>>)}
Expressions ==
    {Identifier("y"), ArrayLiteral(<<Identifier("y")>>),
     ObjectLiteral(<<"k">>, <<Identifier("y")>>)}
Conditions == {BooleanLiteral("haan")}

AnalyzeNext ==
    \/ \E n \in VarNames, e \in Initializers : AnalyzeVariableDeclaration(n, e)
    \/ \E e \in Expressions : AnalyzeExpressionStatement(e)
    \/ \E n \in FuncNames, p \in ParamLists : AnalyzeFunctionDeclarationEnter(n, p)
    \/ AnalyzeFunctionDeclarationExit
    \/ \E e \in Conditions : AnalyzeIfStatementEnter(e)
    \/ AnalyzeIfStatementElse
    \/ AnalyzeIfStatementExit
    \/ \E e \in Conditions : AnalyzeLoopStatementEnter(e)
    \/ AnalyzeLoopStatementExit
    \/ AnalyzeMainCheck

SpecAnalyze == AnalyzeInit /\ [][AnalyzeNext]_vars

\* SpecCalls walks programs of function declarations, calls and declarations
\* of a variable: "pow" is a builtin's name, "main" the entry point's.
CallFuncNames == {"main", "f", "pow"}
CallVarNames == {"main"}
CallArgLists == {<<>>, <<Num>>, <<Num, Identifier("y")>>}
Calls == {FunctionCall(f, a) : f \in {"f", "pow"}, a \in CallArgLists}

CallsNext ==
    \/ \E n \in CallVarNames : AnalyzeVariableDeclaration(n, NoExpr)
    \/ \E e \in Calls : AnalyzeExpressionStatement(e)
    \/ \E n \in CallFuncNames, p \in ParamLists : AnalyzeFunctionDeclarationEnter(n, p)
    \/ AnalyzeFunctionDeclarationExit
    \/ AnalyzeMainCheck

SpecCalls == AnalyzeInit /\ [][CallsNext]_vars

\* SpecAssign walks programs of declarations of x (without initializer, with a
\* Number, with a String), assignments to x and declarations of a function f,
\* whose body is a nested scope: the value assigned is a Number, a String,
\* the undeclared y (Unknown) or a call of f (Void once f is declared).
AssignInitializers == {NoExpr, Num, Str}
AssignValues == {Num, Str, Identifier("y"), FunctionCall("f", <<>>)}
Assignments == {Assignment("x", v) : v \in AssignValues}

AssignNext ==
    \/ \E e \in AssignInitializers : AnalyzeVariableDeclaration("x", e)
    \/ \E e \in Assignments : AnalyzeExpressionStatement(e)
    \/ AnalyzeFunctionDeclarationEnter("f", <<>>)
    \/ AnalyzeFunctionDeclarationExit

SpecAssign == AnalyzeInit /\ [][AssignNext]_vars

\* SpecConditions walks programs of ifs and loops nested in each other and in
\* the body of a function f, with these conditions: `1 + 2` (Number), a String,
\* a Boolean, the undeclared y (Unknown), a call of f (Void once f is declared).
ConditionExpressions ==
    {BinaryOp(Num, "+", NumberLiteral("2")), Str, BooleanLiteral("true"),
     Identifier("y"), FunctionCall("f", <<>>)}

ConditionsNext ==
    \/ \E e \in ConditionExpressions : AnalyzeIfStatementEnter(e)
    \/ AnalyzeIfStatementExit
    \/ \E e \in ConditionExpressions : AnalyzeLoopStatementEnter(e)
    \/ AnalyzeLoopStatementExit
    \/ AnalyzeFunctionDeclarationEnter("f", <<>>)
    \/ AnalyzeFunctionDeclarationExit

SpecConditions == AnalyzeInit /\ [][ConditionsNext]_vars

\* SpecBuiltins walks programs that call the two-argument builtins pow, max
\* and min with zero to three arguments, at top level and in the body of main.
BuiltinArgLists ==
    {<<>>, <<Num>>, <<Num, NumberLiteral("2")>>, <<Num, Str>>, <<Str, Identifier("y")>>,
     <<Num, Num, Num>>}
BuiltinCalls == {FunctionCall(f, a) : f \in {"pow", "max", "min"}, a \in BuiltinArgLists}

BuiltinsNext ==
    \/ \E e \in BuiltinCalls : AnalyzeExpressionStatement(e)
    \/ AnalyzeFunctionDeclarationEnter("main", <<>>)
    \/ AnalyzeFunctionDeclarationExit
    \/ AnalyzeMainCheck

SpecBuiltins == AnalyzeInit /\ [][BuiltinsNext]_vars

\* SpecArithmetic walks programs that declare a function f and, at top level
\* and in f's body, variables r initialized with `l op r`: the operands are a
\* Number, a String, the undeclared y (Unknown) and a call of f (Void).
ArithmeticOperands == {Num, Str, Identifier("y"), FunctionCall("f", <<>>)}
ArithmeticOperators == {"+", "%"}
Arithmetic ==
    {BinaryOp(l, o, r) : l \in ArithmeticOperands, o \in ArithmeticOperators,
                         r \in ArithmeticOperands}

ArithmeticNext ==
    \/ \E e \in Arithmetic : AnalyzeVariableDeclaration("r", e)
    \/ AnalyzeFunctionDeclarationEnter("f", <<>>)
    \/ AnalyzeFunctionDeclarationExit

SpecArithmetic == AnalyzeInit /\ [][ArithmeticNext]_vars

\* SpecReturns walks programs of function declarations, ifs and loops nested
\* in each other, with return statements anywhere: `wapas;` and `wapas y;`
\* (y undeclared, so an analyzed return value leaves its own diagnostic).
ReturnValues == {NoExpr, Identifier("y")}

ReturnsNext ==
    \/ \E v \in ReturnValues : AnalyzeReturnStatement(v)
    \/ AnalyzeFunctionDeclarationEnter("f", <<>>)
    \/ AnalyzeFunctionDeclarationExit
    \/ AnalyzeIfStatementEnter(BooleanLiteral("true"))
    \/ AnalyzeIfStatementElse
    \/ AnalyzeIfStatementExit
    \/ AnalyzeLoopStatementEnter(BooleanLiteral("true"))
    \/ AnalyzeLoopStatementExit

SpecReturns == AnalyzeInit /\ [][ReturnsNext]_vars

\* SpecScopes walks whole analyses: programs of main, ifs and loops nested in
\* each other, with return statements anywhere (outside main they return early
\* with a diagnostic) and conditions that do and do not leave a diagnostic (1
\* and true), up to the check for main that ends analyze.
ScopeConditions == {BooleanLiteral("true"), Num}

ScopesNext ==
    \/ AnalyzeReturnStatement(NoExpr)
    \/ AnalyzeFunctionDeclarationEnter("main", <<>>)
    \/ AnalyzeFunctionDeclarationExit
    \/ \E c \in ScopeConditions : AnalyzeIfStatementEnter(c)
    \/ AnalyzeIfStatementElse
    \/ AnalyzeIfStatementExit
    \/ \E c \in ScopeConditions : AnalyzeLoopStatementEnter(c)
    \/ AnalyzeLoopStatementExit
    \/ AnalyzeMainCheck

SpecScopes == AnalyzeInit /\ [][ScopesNext]_vars

\* SpecRecords walks programs that declare x as a variable (without
\* initializer, with a Number), assign a String to x, and declare the functions
\* x and f, with no parameter or the parameter x, at top level and inside
\* function bodies and if-branches.
RecordInitializers == {NoExpr, Num}
RecordFunctions == {"x", "f"}
RecordParams == {<<>>, <<"x">>}

RecordsNext ==
    \/ \E e \in RecordInitializers : AnalyzeVariableDeclaration("x", e)
    \/ AnalyzeExpressionStatement(Assignment("x", Str))
    \/ \E n \in RecordFunctions, ps \in RecordParams : AnalyzeFunctionDeclarationEnter(n, ps)
    \/ AnalyzeFunctionDeclarationExit
    \/ AnalyzeIfStatementEnter(BooleanLiteral("true"))
    \/ AnalyzeIfStatementExit

SpecRecords == AnalyzeInit /\ [][RecordsNext]_vars

(***************************************************************************)
(* Lexer.  source is the text as a sequence of characters (strings of      *)
(* length one); lexer.pos counts from 0 as in the code.  nextToken is the  *)
(* function NextTokenFrom of the lexer's fields, returning the token and   *)
(* the fields it left.                                                     *)
(***************************************************************************)
Lx(p, l, c) == [pos |-> p, line |-> l, column |-> c]

\* Token(t, v, l, c): the token with its column, which the parser never reads.
Scanned(type, text, l, c) == [type |-> type, value |-> text, line |-> l, column |-> c]

Lexed(token, lx) == [token |-> token, lexer |-> lx]

NotLexed == Scanned("none", "", 0, 0)

\* std::isspace, std::isdigit, std::isalpha, std::isalnum in the "C" locale.
\* The sixth white-space character is the vertical tab (code 11), written here
\* as the character itself.
IsSpace(ch) == ch \in {" ", "\t", "\n", "", "\f", "\r"}
IsDigit(ch) == ch \in {"0", "1", "2", "3", "4", "5", "6", "7", "8", "9"}
IsAlpha(ch) ==
    ch \in {"a", "b", "c", "d", "e", "f", "g", "h", "i", "j", "k", "l", "m",
            "n", "o", "p", "q", "r", "s", "t", "u", "v", "w", "x", "y", "z",
            "A", "B", "C", "D", "E", "F", "G", "H", "I", "J", "K", "L", "M",
            "N", "O", "P", "Q", "R", "S", "T", "U", "V", "W", "X", "Y", "Z"}
IsAlnum(ch) == IsAlpha(ch) \/ IsDigit(ch)

\* source[i]: the character at i < length, the terminating null character at
\* i = length (std::string::operator[]), nothing defined beyond.
Nul == "NUL"
OutOfRange == "out of range"
SourceAt(i) ==
    CASE i < Len(source) -> source[i + 1]
      [] i = Len(source) -> Nul
      [] OTHER -> OutOfRange

\* The keywords map.
KeywordType(text) ==
    CASE text = "banao" -> "BANAO"
      [] text = "kaam" -> "KAAM"
      [] text = "agar" -> "AGAR"
      [] text = "warnah" -> "WARNAH"
      [] text = "daura" -> "DAURA"
      [] text = "wapas" -> "WAPAS"
      [] text = "dekh" -> "DEKH"
      [] text = "lou" -> "LOU"
      [] text = "haan" -> "HAAN"
      [] text = "na" -> "NA"
      [] text = "band" -> "BAND"
      [] OTHER -> "IDENTIFIER"

RECURSIVE SkipComment(_)
\* while (pos < source.length() && source[pos] != '\n') pos++;
SkipComment(lx) ==
    IF lx.pos < Len(source) /\ SourceAt(lx.pos) # "\n"
    THEN SkipComment(Lx(lx.pos + 1, lx.line, lx.column))
    ELSE lx

RECURSIVE SkipWhitespaceAndComments(_)
SkipWhitespaceAndComments(lx) ==
    IF lx.pos >= Len(source) THEN lx
    ELSE IF IsSpace(SourceAt(lx.pos)) THEN
        SkipWhitespaceAndComments(
            IF SourceAt(lx.pos) = "\n" THEN Lx(lx.pos + 1, lx.line + 1, 1)
            ELSE Lx(lx.pos + 1, lx.line, lx.column + 1))
    ELSE IF /\ SourceAt(lx.pos) = "/"
            /\ lx.pos + 1 < Len(source)
            /\ SourceAt(lx.pos + 1) = "/" THEN
        SkipWhitespaceAndComments(SkipComment(lx))
    ELSE lx

RECURSIVE ScanStringLoop(_, _, _)
\* The loop of scanString: text is value, the result the text and the fields.
ScanStringLoop(quote, text, lx) ==
    IF lx.pos < Len(source) /\ SourceAt(lx.pos) # quote
    THEN ScanStringLoop(quote, text \o SourceAt(lx.pos),
                        IF SourceAt(lx.pos) = "\n" THEN Lx(lx.pos + 1, lx.line + 1, 1)
                        ELSE Lx(lx.pos + 1, lx.line, lx.column + 1))
    ELSE [text |-> text, lexer |-> lx]

\* A mutant of ScanString: the closing quote is skipped without looking for
\* the end of the text.
ScanStringPastEnd(quote, lx) ==
    LET body == ScanStringLoop(quote, "", Lx(lx.pos + 1, lx.line, lx.column + 1))
        end == body.lexer
    IN  Lexed(Scanned("STRING", body.text, lx.line, lx.column),
              Lx(end.pos + 1, end.line, end.column + 1))

ScanString(quote, lx) ==
    LET body == ScanStringLoop(quote, "", Lx(lx.pos + 1, lx.line, lx.column + 1))
        end == body.lexer
    IN  Lexed(Scanned("STRING", body.text, lx.line, lx.column),
              IF end.pos < Len(source) THEN Lx(end.pos + 1, end.line, end.column + 1)
              ELSE end)

RECURSIVE ScanNumberLoop(_, _)
ScanNumberLoop(text, lx) ==
    IF lx.pos < Len(source) /\ (IsDigit(SourceAt(lx.pos)) \/ SourceAt(lx.pos) = ".")
    THEN ScanNumberLoop(text \o SourceAt(lx.pos), Lx(lx.pos + 1, lx.line, lx.column + 1))
    ELSE [text |-> text, lexer |-> lx]

ScanNumber(lx) ==
    LET number == ScanNumberLoop("", lx)
    IN  Lexed(Scanned("NUMBER", number.text, lx.line, lx.column), number.lexer)

RECURSIVE ScanIdentifierLoop(_, _)
ScanIdentifierLoop(text, lx) ==
    IF lx.pos < Len(source) /\ (IsAlnum(SourceAt(lx.pos)) \/ SourceAt(lx.pos) = "_")
    THEN ScanIdentifierLoop(text \o SourceAt(lx.pos), Lx(lx.pos + 1, lx.line, lx.column + 1))
    ELSE [text |-> text, lexer |-> lx]

ScanIdentifierOrKeyword(lx) ==
    LET word == ScanIdentifierLoop("", lx)
    IN  Lexed(Scanned(KeywordType(word.text), word.text, lx.line, lx.column), word.lexer)

\* source[pos] == second ? (pos++, column++, Token(both, ...)) : Token(single, ...)
\* where lx is the lexer after the first character and l, c the token's place.
Lookahead(ch, second, both, single, lx, l, c) ==
    IF SourceAt(lx.pos) = second
    THEN Lexed(Scanned(both, ch \o second, l, c), Lx(lx.pos + 1, lx.line, lx.column + 1))
    ELSE Lexed(Scanned(single, ch, l, c), lx)

\* pos++; column++; switch (ch)
ScanOperator(ch, lx0) ==
    LET lx == Lx(lx0.pos + 1, lx0.line, lx0.column + 1)
        l == lx0.line
        c == lx0.column
        One(type) == Lexed(Scanned(type, ch, l, c), lx)
    IN  CASE ch = "+" -> Lookahead(ch, "=", "PLUS_ASSIGN", "PLUS", lx, l, c)
          [] ch = "-" -> Lookahead(ch, "=", "MINUS_ASSIGN", "MINUS", lx, l, c)
          [] ch = "*" -> Lookahead(ch, "=", "STAR_ASSIGN", "STAR", lx, l, c)
          [] ch = "/" -> Lookahead(ch, "=", "SLASH_ASSIGN", "SLASH", lx, l, c)
          [] ch = "%" -> One("PERCENT")
          [] ch = "=" -> Lookahead(ch, "=", "EQ", "ASSIGN", lx, l, c)
          [] ch = "!" -> Lookahead(ch, "=", "NE", "NOT", lx, l, c)
          [] ch = "<" -> Lookahead(ch, "=", "LE", "LT", lx, l, c)
          [] ch = ">" -> Lookahead(ch, "=", "GE", "GT", lx, l, c)
          [] ch = "&" -> Lookahead(ch, "&", "AND", "UNKNOWN", lx, l, c)
          [] ch = "|" -> Lookahead(ch, "|", "OR", "UNKNOWN", lx, l, c)
          [] ch = "(" -> One("LPAREN")
          [] ch = ")" -> One("RPAREN")
          [] ch = "{" -> One("LBRACE")
          [] ch = "}" -> One("RBRACE")
          [] ch = "[" -> One("LBRACKET")
          [] ch = "]" -> One("RBRACKET")
          [] ch = ";" -> One("SEMICOLON")
          [] ch = "," -> One("COMMA")
          [] ch = ":" -> One("COLON")
          [] ch = "." -> One("DOT")
          [] OTHER -> One("UNKNOWN")

NextTokenFrom(lx0) ==
    LET lx == SkipWhitespaceAndComments(lx0)
        ch == SourceAt(lx.pos)
    IN  IF lx.pos >= Len(source) THEN Lexed(Scanned("EOF_TOKEN", "", lx.line, lx.column), lx)
        ELSE IF ch = "'" \/ ch = "\"" THEN ScanString(ch, lx)
        ELSE IF IsDigit(ch) THEN ScanNumber(lx)
        ELSE IF IsAlpha(ch) \/ ch = "_" THEN ScanIdentifierOrKeyword(lx)
        ELSE ScanOperator(ch, lx)

\* The characters whose case of the switch evaluates source[pos], the
\* character after them, before it chooses between two tokens.
LookaheadCharacters == {"+", "-", "*", "/", "=", "!", "<", ">", "&", "|"}

NoRead == -1

\* The index at which a call of nextToken that starts at lx0 evaluates
\* source[pos] in its switch, NoRead when the call takes no such case: the
\* index is the one after the operator character, and the code compares the
\* character there without comparing pos with source.length() first.
LookaheadIndex(lx0) ==
    LET lx == SkipWhitespaceAndComments(lx0)
    IN  IF lx.pos < Len(source) /\ SourceAt(lx.pos) \in LookaheadCharacters
        THEN lx.pos + 1
        ELSE NoRead

(***************************************************************************)
(* SpecLexer: a source text of up to MaxSource characters is handed to the *)
(* Lexer, then nextToken is called again and again, also after it has      *)
(* returned the end-of-input token.                                        *)
(***************************************************************************)
\* A digit, letters (`na` is a keyword), white space, a line end, the comment
\* and operator character `/`, operators with a lookahead, a quote and a
\* character no token starts with.
SourceAlphabet == {"1", "n", "a", " ", "\n", "/", "=", "&", "\"", "@"}

LexerInit ==
    /\ TableIdle
    /\ AnalyzerIdle
    /\ ParserIdle
    /\ LexerIdle

\* The text given to Lexer(src) has one more character.
AppendCharacter(ch) ==
    /\ lexed = NotLexed
    /\ Len(source) < MaxSource
    /\ source' = Append(source, ch)
    /\ UNCHANGED <<lexer, lexed, tableVars, analyzerVars, parserVars>>

NextToken ==
    /\ \E r \in {NextTokenFrom(lexer)} :
            /\ lexed' = r.token
            /\ lexer' = r.lexer
    /\ UNCHANGED <<source, tableVars, analyzerVars, parserVars>>

LexerNext ==
    \/ \E ch \in SourceAlphabet : AppendCharacter(ch)
    \/ NextToken

SpecLexer == LexerInit /\ [][LexerNext]_vars

\* The caller goes on calling nextToken as long as a call changes anything.
SpecLexerFair == SpecLexer /\ WF_vars(NextToken)

(***************************************************************************)
(* Parser.  tokens is what main hands to Parser: the lexer's tokens and    *)
(* the EOF token that closes them.  cur is current + 1 (sequences start at *)
(* 1).  Every parse* returns [ok, node, pos]: the node built and the next  *)
(* position, or, for a thrown std::runtime_error, ok = FALSE with the      *)
(* exception's message, the token text spliced into it (at) and the line   *)
(* it names (NoLine when the message names none).                          *)
(***************************************************************************)
Token(type, value, line) == [type |-> type, value |-> value, line |-> line]

Stmt(k, name, params, expr, body, elseBranch) ==
    [k |-> k, name |-> name, params |-> params, expr |-> expr, body |-> body,
     elseBranch |-> elseBranch]

NullStmt == Stmt("nullptr", "", <<>>, NoExpr, <<>>, <<>>)
VariableDeclaration(n, init) == Stmt("VariableDeclaration", n, <<>>, init, <<>>, <<>>)
FunctionDeclaration(n, params, body) ==
    Stmt("FunctionDeclaration", n, params, NoExpr, body, <<>>)
IfStatement(cond, thenBranch, elseBranch) ==
    Stmt("IfStatement", "", <<>>, cond, thenBranch, elseBranch)
LoopStatement(cond, body) == Stmt("LoopStatement", "", <<>>, cond, body, <<>>)
ReturnStatement(value) == Stmt("ReturnStatement", "", <<>>, value, <<>>, <<>>)
ExpressionStatement(e) == Stmt("ExpressionStatement", "", <<>>, e, <<>>, <<>>)

NoLine == -1
Ok(node, pos) == [ok |-> TRUE, node |-> node, pos |-> pos, msg |-> "", at |-> "",
                  line |-> NoLine]
Throw(msg, at, line) == [ok |-> FALSE, node |-> NoExpr, pos |-> 0, msg |-> msg,
                         at |-> at, line |-> line]

\* Sequencing of parsing steps: in
\*     Only({IF ~r.ok THEN r ELSE rest : r \in {step}})
\* step is computed once, as r; if it threw, the exception propagates and rest
\* is skipped, else the function goes on with rest, which reads step's node
\* and position from r.
Only(S) == CHOOSE x \in S : TRUE

Peek(cur) == IF cur > Len(tokens) THEN Token("EOF_TOKEN", "", 0) ELSE tokens[cur]
IsAtEnd(cur) == Peek(cur).type = "EOF_TOKEN"
Check(cur, type) == IF IsAtEnd(cur) THEN FALSE ELSE Peek(cur).type = type

\* consume: the token and the position after it, or the exception.
Consume(cur, type, message) ==
    IF Check(cur, type) THEN Ok(Peek(cur), cur + 1)
    ELSE Throw(message, "", Peek(cur).line)

\* A mutant of LevelTokens: parseTerm and parseFactor trade their operators.
LevelTokensSwapped(level) ==
    CASE level = 1 -> {"OR"}
      [] level = 2 -> {"AND"}
      [] level = 3 -> {"EQ", "NE"}
      [] level = 4 -> {"LT", "LE", "GT", "GE"}
      [] level = 5 -> {"STAR", "SLASH", "PERCENT"}
      [] level = 6 -> {"PLUS", "MINUS"}

\* The operator tokens each binary level matches: parseLogicalOr (1),
\* parseLogicalAnd, parseEquality, parseComparison, parseTerm, parseFactor (6).
LevelTokens(level) ==
    CASE level = 1 -> {"OR"}
      [] level = 2 -> {"AND"}
      [] level = 3 -> {"EQ", "NE"}
      [] level = 4 -> {"LT", "LE", "GT", "GE"}
      [] level = 5 -> {"PLUS", "MINUS"}
      [] level = 6 -> {"STAR", "SLASH", "PERCENT"}

RECURSIVE ParseStatement(_)
RECURSIVE ParseStatements(_, _)
RECURSIVE ParseAssignment(_)
RECURSIVE ParseLevel(_, _)
RECURSIVE ParseLevelLoop(_, _, _)
RECURSIVE ClimbLevels(_, _, _, _)
RECURSIVE ParseUnary(_)
RECURSIVE ParsePostfixLoop(_, _)
RECURSIVE ParseExpressionList(_, _)
RECURSIVE ParseMembers(_, _, _)
RECURSIVE ParseParameters(_, _)

ParseExpression(cur) == ParseAssignment(cur)

\* do { list.push_back(parseExpression()); } while (match(COMMA));
ParseExpressionList(cur, acc) ==
    Only({IF ~e.ok THEN e ELSE
           IF Check(e.pos, "COMMA")
           THEN ParseExpressionList(e.pos + 1, Append(acc, e.node))
           ELSE Ok(Append(acc, e.node), e.pos)
          : e \in {ParseExpression(cur)}})

\* The do-while of an object literal: key, ':', value, while match(COMMA).
ParseMembers(cur, keys, values) ==
    Only({IF ~key.ok THEN key ELSE
           Only({IF ~colon.ok THEN colon ELSE
            Only({IF ~value.ok THEN value ELSE
             IF Check(value.pos, "COMMA")
             THEN ParseMembers(value.pos + 1, Append(keys, key.node.value),
                               Append(values, value.node))
             ELSE Ok(ObjectLiteral(Append(keys, key.node.value),
                                   Append(values, value.node)), value.pos)
            : value \in {ParseExpression(colon.pos)}})
           : colon \in {Consume(key.pos, "COLON", "Expected ':' after property name")}})
          : key \in {Consume(cur, "IDENTIFIER", "Expected property name")}})

\* The value of a decimal digit, -1 for any other character.
DigitValue(ch) ==
    CASE ch = "0" -> 0 [] ch = "1" -> 1 [] ch = "2" -> 2 [] ch = "3" -> 3
      [] ch = "4" -> 4 [] ch = "5" -> 5 [] ch = "6" -> 6 [] ch = "7" -> 7
      [] ch = "8" -> 8 [] ch = "9" -> 9 [] OTHER -> -1

\* What std::stod reads of the text of a NUMBER token (digits and points, a
\* digit first): the digits up to the first point and those from there to the
\* second point, as sequences of digit values, the integer part without its
\* leading zeros and the fraction without its trailing zeros.
StodText(text) ==
    LET n == Len(text)
        d == [i \in 1..n |-> DigitValue(SubSeq(text, i, i))]
        stops == {i \in 1..n : d[i] < 0}
        e1 == IF stops = {} THEN n + 1
              ELSE CHOOSE i \in stops : \A j \in stops : i <= j
        later == {i \in stops : i > e1}
        e2 == IF e1 > n \/ SubSeq(text, e1, e1) # "." THEN e1 + 1
              ELSE IF later = {} THEN n + 1
              ELSE CHOOSE i \in later : \A j \in later : i <= j
        intNonZero == {i \in 1..(e1 - 1) : d[i] > 0}
        first == IF intNonZero = {} THEN e1
                 ELSE CHOOSE i \in intNonZero : \A j \in intNonZero : i <= j
        fracNonZero == {i \in (e1 + 1)..(e2 - 1) : d[i] > 0}
        last == IF fracNonZero = {} THEN e1
                ELSE CHOOSE i \in fracNonZero : \A j \in fracNonZero : j <= i
    IN  [valid |-> e1 > 1 \/ e2 > e1 + 1,
         int |-> SubSeq(d, first, e1 - 1),
         frac |-> SubSeq(d, e1 + 1, last)]

\* a < b for digit sequences read from the left, the shorter one continued by
\* zeros.
DigitsLess(a, b) ==
    LET A(i) == IF i <= Len(a) THEN a[i] ELSE 0
        B(i) == IF i <= Len(b) THEN b[i] ELSE 0
        m == IF Len(a) < Len(b) THEN Len(b) ELSE Len(a)
    IN  \E i \in 1..m : A(i) < B(i) /\ \A j \in 1..(i - 1) : A(j) = B(j)

\* 2^1024 - 2^970, the least integer that rounds to no finite double: half
\* way from the greatest double to 2^1024, and the tie goes up.
StodOverflowDigits ==
    "1797693134862315807937289714053034150799341327100378269361737789" \o
    "8044496829276475094664901797758720709633028641669288791094655554" \o
    "7851940402630657488671505820681908902000708383676273854845817711" \o
    "5317644757302700698555713669596228429148198608349364752927190741" \o
    "68444365510704342711559699508093042880177904174497792"

\* The 1076 fraction digits of 2^-1022 - 2^-1076, the least value that rounds
\* to a normal double: strtod calls a smaller nonzero value tiny.
StodTinyDigits ==
    "0000000000000000000000000000000000000000000000000000000000000000" \o
    "0000000000000000000000000000000000000000000000000000000000000000" \o
    "0000000000000000000000000000000000000000000000000000000000000000" \o
    "0000000000000000000000000000000000000000000000000000000000000000" \o
    "0000000000000000000000000000000000000000000000000002225073858507" \o
    "2012595738212570207680200770177634069887392883767633060133284174" \o
    "9757068540634146032305423910824932203771605601126030012402737719" \o
    "1834796392769721437078990836532798904431849864732504110467273084" \o
    "6969778120287162365569679358956573518682027887224948115301513176" \o
    "1636633329694595343136922219030805378769494041174370780982258074" \o
    "0988880551617907119002148759401915892151482081924890263312702257" \o
    "3211847507718614522240962126316986236387768601418380611657022637" \o
    "7664090764819443553605433637372797801459310067866049211751678490" \o
    "8521511159767373323339191983221326853519128338784891913380715532" \o
    "8409710038789936272406867266633976091498343498313448796766534690" \o
    "9155913018989911452112478238054734100977559067609629158594969774" \o
    "3018930811385869272811532937339507043361663818359375"

\* f / 5 for the digits f of a multiple of 5, in the same width; <<>> when f is
\* no multiple of 5 (or is <<>> already).
FifthOf(f) ==
    IF f = <<>> THEN <<>>
    ELSE IF f[Len(f)] \notin {0, 5} THEN <<>>
    ELSE SubSeq([i \in 1..Len(f) |->
                    IF i = 1 THEN (IF f[1] >= 5 THEN 1 ELSE 0)
                    ELSE (2 * f[i - 1] + (IF f[i] >= 5 THEN 1 ELSE 0)) % 10],
                1, Len(f))

\* f / 5^k, <<>> when 5^k does not divide f.
RECURSIVE FifthPowerOf(_, _)
FifthPowerOf(f, k) ==
    IF k = 0 THEN f
    ELSE IF k = 1 THEN FifthOf(f)
    ELSE Only({IF half = <<>> THEN <<>> ELSE FifthPowerOf(half, k - (k \div 2))
               : half \in {FifthPowerOf(f, k \div 2)}})

\* std::stod(text) throws ("stod" is what() of the exception): strtod reports
\* ERANGE when the value rounds to no finite double, and when it is tiny and
\* inexact, that is nonzero, below the least value that rounds to a normal
\* double, and no multiple of 2^-1074 (a fraction of k digits, the last
\* nonzero, is one exactly when k <= 1074 and 5^k divides its digits).
StodThrows(text) ==
    LET t == StodText(text)
        k == Len(t.frac)
    IN  \/ ~t.valid
        \/ Len(t.int) > Len(StodOverflowDigits)
        \/ /\ Len(t.int) = Len(StodOverflowDigits)
           /\ ~DigitsLess(t.int, StodText(StodOverflowDigits).int)
        \/ /\ t.int = <<>>
           /\ t.frac # <<>>
           /\ DigitsLess(t.frac, StodText("0." \o StodTinyDigits).frac)
           /\ (k > 1074 \/ FifthPowerOf(t.frac, k) = <<>>)

\* NumberLiteral keeps the token's text where the code keeps std::stod of it;
\* the std::out_of_range of std::stod leaves parsePrimary like a parse error,
\* with no line.
ParsePrimary(cur) ==
    CASE Check(cur, "HAAN") -> Ok(BooleanLiteral("true"), cur + 1)
      [] Check(cur, "NA") -> Ok(BooleanLiteral("false"), cur + 1)
      [] Check(cur, "NUMBER") ->
        IF StodThrows(Peek(cur).value) THEN Throw("stod", "", NoLine)
        ELSE Ok(NumberLiteral(Peek(cur).value), cur + 1)
      [] Check(cur, "STRING") -> Ok(StringLiteral(Peek(cur).value), cur + 1)
      [] Check(cur, "IDENTIFIER") -> Ok(Identifier(Peek(cur).value), cur + 1)
      [] Check(cur, "DEKH") -> Ok(Identifier("dekh"), cur + 1)
      [] Check(cur, "LOU") -> Ok(Identifier("lou"), cur + 1)
      [] Check(cur, "BAND") -> Ok(Identifier("band"), cur + 1)
      [] Check(cur, "LBRACKET") ->
        Only({IF ~elements.ok THEN elements ELSE
               Only({IF ~close.ok THEN close ELSE
                Ok(ArrayLiteral(elements.node), close.pos)
               : close \in {Consume(elements.pos, "RBRACKET", "Expected ']' after array elements")}})
              : elements \in {IF ~Check(cur + 1, "RBRACKET") THEN ParseExpressionList(cur + 1, <<>>) ELSE Ok(<<>>, cur + 1)}})
      [] Check(cur, "LBRACE") ->
        Only({IF ~objLit.ok THEN objLit ELSE
               Only({IF ~close.ok THEN close ELSE
                Ok(objLit.node, close.pos)
               : close \in {Consume(objLit.pos, "RBRACE", "Expected '}' after object properties")}})
              : objLit \in {IF ~Check(cur + 1, "RBRACE") THEN ParseMembers(cur + 1, <<>>, <<>>) ELSE Ok(ObjectLiteral(<<>>, <<>>), cur + 1)}})
      [] Check(cur, "LPAREN") ->
        Only({IF ~expr.ok THEN expr ELSE
               Only({IF ~close.ok THEN close ELSE
                Ok(expr.node, close.pos)
               : close \in {Consume(expr.pos, "RPAREN", "Expected ')' after expression")}})
              : expr \in {ParseExpression(cur + 1)}})
      [] OTHER -> Throw("Expected expression at token: ", Peek(cur).value, NoLine)

\* The while (true) loop of parsePostfix, expr being the expression so far.
ParsePostfixLoop(expr, cur) ==
    IF Check(cur, "LBRACKET") THEN
        Only({IF ~index.ok THEN index ELSE
               Only({IF ~close.ok THEN close ELSE
                Only({ParsePostfixLoop(next, close.pos)
                : next \in {IF expr.k = "Identifier" THEN ArrayAccess(expr.name, index.node) ELSE expr}})
               : close \in {Consume(index.pos, "RBRACKET", "Expected ']' after array index")}})
              : index \in {ParseExpression(cur + 1)}})
    ELSE IF Check(cur, "LPAREN") /\ expr.k = "Identifier" THEN
        Only({IF ~args.ok THEN args ELSE
               Only({IF ~close.ok THEN close ELSE
                Only({ParsePostfixLoop(next, close.pos)
                : next \in {FunctionCall(expr.name, args.node)}})
               : close \in {Consume(args.pos, "RPAREN", "Expected ')' after function arguments")}})
              : args \in {IF ~Check(cur + 1, "RPAREN") THEN ParseExpressionList(cur + 1, <<>>) ELSE Ok(<<>>, cur + 1)}})
    ELSE Ok(expr, cur)

ParsePostfix(cur) ==
    Only({IF ~expr.ok THEN expr ELSE
           ParsePostfixLoop(expr.node, expr.pos)
          : expr \in {ParsePrimary(cur)}})

ParseUnary(cur) ==
    IF Check(cur, "NOT") \/ Check(cur, "MINUS") THEN
        Only({IF ~expr.ok THEN expr ELSE
               Ok(UnaryOp(Peek(cur).value, expr.node), expr.pos)
              : expr \in {ParseUnary(cur + 1)}})
    ELSE ParsePostfix(cur)

\* The while loop of a binary level, left being the expression so far.
ParseLevelLoop(level, left, cur) ==
    IF \E t \in LevelTokens(level) : Check(cur, t) THEN
        Only({IF ~right.ok THEN right ELSE
               ParseLevelLoop(level, BinaryOp(left, Peek(cur).value, right.node),
                              right.pos)
              : right \in {IF level = 6 THEN ParseUnary(cur + 1)
                           ELSE ParseLevel(level + 1, cur + 1)}})
    ELSE Ok(left, cur)

\* The loops of levels k, k - 1, .., level run in turn, each on the expression
\* the one before returned.
ClimbLevels(k, level, left, cur) ==
    IF k < level THEN Ok(left, cur)
    ELSE Only({IF ~e.ok THEN e ELSE ClimbLevels(k - 1, level, e.node, e.pos)
              : e \in {ParseLevelLoop(k, left, cur)}})

\* parseLogicalOr .. parseFactor.  Each parses its first operand with the next
\* level, parseFactor with parseUnary, and then runs its own loop: the function
\* of a level is parseUnary followed by the loops of levels 6, 5, .., level.
ParseLevel(level, cur) ==
    Only({IF ~operand.ok THEN operand
          ELSE ClimbLevels(6, level, operand.node, operand.pos)
         : operand \in {ParseUnary(cur)}})

ParseLogicalOr(cur) == ParseLevel(1, cur)
ParseLogicalAnd(cur) == ParseLevel(2, cur)
ParseEquality(cur) == ParseLevel(3, cur)
ParseComparison(cur) == ParseLevel(4, cur)
ParseTerm(cur) == ParseLevel(5, cur)
ParseFactor(cur) == ParseLevel(6, cur)

CompoundAssignTokens == {"PLUS_ASSIGN", "MINUS_ASSIGN", "STAR_ASSIGN", "SLASH_ASSIGN"}

\* op.substr(0, op.length() - 1) of a compound-assignment token's text.
WithoutAssign(value) ==
    CASE value = "+=" -> "+"
      [] value = "-=" -> "-"
      [] value = "*=" -> "*"
      [] value = "/=" -> "/"

ParseAssignment(cur) ==
    Only({IF ~expr.ok THEN expr ELSE
           IF Check(expr.pos, "ASSIGN") THEN
               IF expr.node.k = "Identifier" THEN
                   Only({IF ~value.ok THEN value ELSE
                          Ok(Assignment(expr.node.name, value.node), value.pos)
                         : value \in {ParseAssignment(expr.pos + 1)}})
               ELSE Throw("Invalid assignment target", "", NoLine)
           ELSE IF \E t \in CompoundAssignTokens : Check(expr.pos, t) THEN
               \* the matched token is consumed on both paths
               IF expr.node.k = "Identifier" THEN
                   Only({IF ~value.ok THEN value ELSE
                          Ok(Assignment(expr.node.name,
                                     BinaryOp(expr.node,
                                              WithoutAssign(Peek(expr.pos).value),
                                              value.node)),
                          value.pos)
                         : value \in {ParseAssignment(expr.pos + 1)}})
               ELSE Ok(expr.node, expr.pos + 1)
           ELSE expr
          : expr \in {ParseLogicalOr(cur)}})

\* while (!check(RBRACE) && !isAtEnd()) { if (stmt = parseStatement()) push }
ParseStatements(cur, acc) ==
    IF ~Check(cur, "RBRACE") /\ ~IsAtEnd(cur) THEN
        Only({IF ~stmt.ok THEN stmt ELSE
               ParseStatements(stmt.pos,
               IF stmt.node.k = "nullptr" THEN acc
               ELSE Append(acc, stmt.node))
              : stmt \in {ParseStatement(cur)}})
    ELSE Ok(acc, cur)

ParseVariableDeclaration(cur) ==
    Only({IF ~nameToken.ok THEN nameToken ELSE
           Only({IF ~initializer.ok THEN initializer ELSE
            Only({IF ~semi.ok THEN semi ELSE
             Ok(VariableDeclaration(nameToken.node.value, initializer.node), semi.pos)
            : semi \in {Consume(initializer.pos, "SEMICOLON", "Expected ';' after variable declaration")}})
           : initializer \in {IF Check(nameToken.pos, "ASSIGN") THEN ParseExpression(nameToken.pos + 1) ELSE Ok(NoExpr, nameToken.pos)}})
          : nameToken \in {Consume(cur, "IDENTIFIER", "Expected identifier")}})

\* do { params.push_back(consume(IDENTIFIER)); } while (match(COMMA));
ParseParameters(cur, acc) ==
    Only({IF ~param.ok THEN param ELSE
           IF Check(param.pos, "COMMA")
           THEN ParseParameters(param.pos + 1, Append(acc, param.node.value))
           ELSE Ok(Append(acc, param.node.value), param.pos)
          : param \in {Consume(cur, "IDENTIFIER", "Expected parameter name")}})

ParseFunctionDeclaration(cur) ==
    Only({IF ~nameToken.ok THEN nameToken ELSE
           Only({IF ~lparen.ok THEN lparen ELSE
            Only({IF ~params.ok THEN params ELSE
             Only({IF ~rparen.ok THEN rparen ELSE
              Only({IF ~lbrace.ok THEN lbrace ELSE
               Only({IF ~body.ok THEN body ELSE
                Only({IF ~rbrace.ok THEN rbrace ELSE
                 Ok(FunctionDeclaration(nameToken.node.value, params.node, body.node),
                 rbrace.pos)
                : rbrace \in {Consume(body.pos, "RBRACE", "Expected '}' after function body")}})
               : body \in {ParseStatements(lbrace.pos, <<>>)}})
              : lbrace \in {Consume(rparen.pos, "LBRACE", "Expected '{' before function body")}})
             : rparen \in {Consume(params.pos, "RPAREN", "Expected ')' after parameters")}})
            : params \in {IF ~Check(lparen.pos, "RPAREN") THEN ParseParameters(lparen.pos, <<>>) ELSE Ok(<<>>, lparen.pos)}})
           : lparen \in {Consume(nameToken.pos, "LPAREN", "Expected '(' after function name")}})
          : nameToken \in {Consume(cur, "IDENTIFIER", "Expected function name")}})

ParseIfStatement(cur) ==
    Only({IF ~lparen.ok THEN lparen ELSE
           Only({IF ~condition.ok THEN condition ELSE
            Only({IF ~rparen.ok THEN rparen ELSE
             Only({IF ~lbrace.ok THEN lbrace ELSE
              Only({IF ~thenBranch.ok THEN thenBranch ELSE
               Only({IF ~rbrace.ok THEN rbrace ELSE
                IF Check(rbrace.pos, "WARNAH") THEN
                    Only({IF ~elbrace.ok THEN elbrace ELSE
                           Only({IF ~elseBranch.ok THEN elseBranch ELSE
                            Only({IF ~erbrace.ok THEN erbrace ELSE
                             Ok(IfStatement(condition.node, thenBranch.node, elseBranch.node),
                             erbrace.pos)
                            : erbrace \in {Consume(elseBranch.pos, "RBRACE", "Expected '}' after else body")}})
                           : elseBranch \in {ParseStatements(elbrace.pos, <<>>)}})
                          : elbrace \in {Consume(rbrace.pos + 1, "LBRACE", "Expected '{' before else body")}})
                ELSE Ok(IfStatement(condition.node, thenBranch.node, <<>>), rbrace.pos)
               : rbrace \in {Consume(thenBranch.pos, "RBRACE", "Expected '}' after if body")}})
              : thenBranch \in {ParseStatements(lbrace.pos, <<>>)}})
             : lbrace \in {Consume(rparen.pos, "LBRACE", "Expected '{' before if body")}})
            : rparen \in {Consume(condition.pos, "RPAREN", "Expected ')' after if condition")}})
           : condition \in {ParseExpression(lparen.pos)}})
          : lparen \in {Consume(cur, "LPAREN", "Expected '(' after 'agar'")}})

ParseLoopStatement(cur) ==
    Only({IF ~lparen.ok THEN lparen ELSE
           Only({IF ~condition.ok THEN condition ELSE
            Only({IF ~rparen.ok THEN rparen ELSE
             Only({IF ~lbrace.ok THEN lbrace ELSE
              Only({IF ~body.ok THEN body ELSE
               Only({IF ~rbrace.ok THEN rbrace ELSE
                Ok(LoopStatement(condition.node, body.node), rbrace.pos)
               : rbrace \in {Consume(body.pos, "RBRACE", "Expected '}' after loop body")}})
              : body \in {ParseStatements(lbrace.pos, <<>>)}})
             : lbrace \in {Consume(rparen.pos, "LBRACE", "Expected '{' before loop body")}})
            : rparen \in {Consume(condition.pos, "RPAREN", "Expected ')' after loop condition")}})
           : condition \in {ParseExpression(lparen.pos)}})
          : lparen \in {Consume(cur, "LPAREN", "Expected '(' after 'daura'")}})

ParseReturnStatement(cur) ==
    Only({IF ~value.ok THEN value ELSE
           Only({IF ~semi.ok THEN semi ELSE
            Ok(ReturnStatement(value.node), semi.pos)
           : semi \in {Consume(value.pos, "SEMICOLON", "Expected ';' after return statement")}})
          : value \in {IF ~Check(cur, "SEMICOLON") THEN ParseExpression(cur) ELSE Ok(NoExpr, cur)}})

ParseExpressionStatement(cur) ==
    Only({IF ~expr.ok THEN expr ELSE
           Only({IF ~semi.ok THEN semi ELSE
            Ok(ExpressionStatement(expr.node), semi.pos)
           : semi \in {Consume(expr.pos, "SEMICOLON", "Expected ';' after expression statement")}})
          : expr \in {ParseExpression(cur)}})

\* A standalone block: its statements are parsed into a local vector and the
\* function returns nullptr.
ParseStatement(cur) ==
    CASE Check(cur, "BANAO") -> ParseVariableDeclaration(cur + 1)
      [] Check(cur, "KAAM") -> ParseFunctionDeclaration(cur + 1)
      [] Check(cur, "AGAR") -> ParseIfStatement(cur + 1)
      [] Check(cur, "DAURA") -> ParseLoopStatement(cur + 1)
      [] Check(cur, "WAPAS") -> ParseReturnStatement(cur + 1)
      [] Check(cur, "LBRACE") ->
        Only({IF ~lbrace.ok THEN lbrace ELSE
               Only({IF ~stmts.ok THEN stmts ELSE
                Only({IF ~rbrace.ok THEN rbrace ELSE
                 Ok(NullStmt, rbrace.pos)
                : rbrace \in {Consume(stmts.pos, "RBRACE", "Expected '}'")}})
               : stmts \in {ParseStatements(lbrace.pos, <<>>)}})
              : lbrace \in {Consume(cur, "LBRACE", "Expected '{'")}})
      [] OTHER -> ParseExpressionStatement(cur)

RECURSIVE ParseProgram(_, _)
\* The loop of parse: while (!isAtEnd()) { statements.push_back(parseStatement()) }
ParseProgram(cur, statements) ==
    IF ~IsAtEnd(cur) THEN
        Only({IF ~stmt.ok THEN stmt ELSE
               ParseProgram(stmt.pos,
               IF stmt.node.k = "nullptr" THEN statements
               ELSE Append(statements, stmt.node))
              : stmt \in {ParseStatement(cur)}})
    ELSE Ok(statements, cur)

\* Parser(tokens).parse(): the Program's statements, or the exception.
Parse == ParseProgram(1, <<>>)

(***************************************************************************)
(* SpecParse: a token sequence is put together, then parsed.               *)
(***************************************************************************)
EofToken == Token("EOF_TOKEN", "", 1)

TokenAlphabet ==
    {Token("NUMBER", "1", 1), Token("IDENTIFIER", "a", 1), Token("BANAO", "banao", 1),
     Token("ASSIGN", "=", 1), Token("PLUS_ASSIGN", "+=", 1),
     Token("LBRACKET", "[", 1), Token("RBRACKET", "]", 1),
     Token("LBRACE", "{", 1), Token("RBRACE", "}", 1),
     Token("SEMICOLON", ";", 1)}

NotParsed == [ran |-> FALSE, ok |-> FALSE, statements |-> <<>>, msg |-> "", at |-> "",
              line |-> NoLine]

ParseInit ==
    /\ TableIdle
    /\ AnalyzerIdle
    /\ tokens = <<EofToken>>
    /\ parsed = NotParsed
    /\ LexerIdle

\* main's lexing loop hands over one more token before the EOF token.
AppendToken(t) ==
    /\ ~parsed.ran
    /\ Len(tokens) <= MaxTokens
    /\ tokens' = Append(SubSeq(tokens, 1, Len(tokens) - 1), t) \o <<EofToken>>
    /\ UNCHANGED <<parsed, tableVars, analyzerVars, lexerVars>>

RunParse ==
    /\ ~parsed.ran
    /\ \E p \in {Parse} :
            parsed' = [ran |-> TRUE, ok |-> p.ok,
                       statements |-> IF p.ok THEN p.node ELSE <<>>,
                       msg |-> p.msg, at |-> p.at, line |-> p.line]
    /\ UNCHANGED <<tokens, tableVars, analyzerVars, lexerVars>>

ParseNext ==
    \/ \E t \in TokenAlphabet : AppendToken(t)
    \/ RunParse

SpecParse == ParseInit /\ [][ParseNext]_vars

(***************************************************************************)
(* SpecPrecedence: Parser::parse applied to one expression statement,      *)
(* operand (operator operand)* `;`, of up to MaxOperands operands.  An     *)
(* operand is a, b, -a or -a[b]; the operators are one of each binary      *)
(* level, and both of the additive level.                                  *)
(***************************************************************************)
OperandForms ==
    {<<Token("IDENTIFIER", "a", 1)>>,
     <<Token("IDENTIFIER", "b", 1)>>,
     <<Token("MINUS", "-", 1), Token("IDENTIFIER", "a", 1)>>,
     <<Token("MINUS", "-", 1), Token("IDENTIFIER", "a", 1), Token("LBRACKET", "[", 1),
       Token("IDENTIFIER", "b", 1), Token("RBRACKET", "]", 1)>>}

OperatorTokens ==
    {Token("OR", "||", 1), Token("AND", "&&", 1), Token("EQ", "==", 1),
     Token("LT", "<", 1), Token("PLUS", "+", 1), Token("MINUS", "-", 1),
     Token("STAR", "*", 1)}

\* The tokens before the closing EOF token, and the last of them.
Lexemes == SubSeq(tokens, 1, Len(tokens) - 1)
LastLexeme == IF Len(tokens) = 1 THEN "none" ELSE tokens[Len(tokens) - 1].type
Operands == Cardinality({i \in 1..Len(tokens) :
                /\ tokens[i].type = "IDENTIFIER"
                /\ tokens[i + 1].type # "RBRACKET"})

AppendOperand(form) ==
    /\ ~parsed.ran
    /\ LastLexeme \notin {"IDENTIFIER", "RBRACKET", "SEMICOLON"}
    /\ Operands < MaxOperands
    /\ tokens' = Lexemes \o form \o <<EofToken>>
    /\ UNCHANGED <<parsed, tableVars, analyzerVars, lexerVars>>

AppendOperator(t) ==
    /\ ~parsed.ran
    /\ LastLexeme \in {"IDENTIFIER", "RBRACKET"}
    /\ Operands < MaxOperands
    /\ tokens' = Append(Lexemes, t) \o <<EofToken>>
    /\ UNCHANGED <<parsed, tableVars, analyzerVars, lexerVars>>

EndStatement ==
    /\ ~parsed.ran
    /\ LastLexeme \in {"IDENTIFIER", "RBRACKET"}
    /\ tokens' = Append(Lexemes, Token("SEMICOLON", ";", 1)) \o <<EofToken>>
    /\ UNCHANGED <<parsed, tableVars, analyzerVars, lexerVars>>

PrecedenceNext ==
    \/ \E form \in OperandForms : AppendOperand(form)
    \/ \E t \in OperatorTokens : AppendOperator(t)
    \/ EndStatement
    \/ RunParse

SpecPrecedence == ParseInit /\ [][PrecedenceNext]_vars

(***************************************************************************)
(* Claims about the parser (SpecParse).                                    *)
(***************************************************************************)
RECURSIVE CountDeclarations(_)
\* The VariableDeclaration nodes of a statement list, nested bodies included.
CountDeclarations(stmts) ==
    IF stmts = <<>> THEN 0
    ELSE LET s == Head(stmts)
         IN  (IF s.k = "VariableDeclaration" THEN 1 ELSE 0)
             + CountDeclarations(s.body) + CountDeclarations(s.elseBranch)
             + CountDeclarations(Tail(stmts))

TokensOfType(type) == {i \in 1..Len(tokens) : tokens[i].type = type}

\* C4: the statements written inside a standalone brace-delimited block are
\* kept in the parsed tree: when a token sequence parses, every `banao` of it
\* (each begins one variable declaration) has its VariableDeclaration node in
\* the Program, nested bodies included.
C4_BlockStatementsKept ==
    (parsed.ran /\ parsed.ok)
        => CountDeclarations(parsed.statements) = Cardinality(TokensOfType("BANAO"))

\* C5: a token sequence in which an index `[` or a call `(` directly follows a
\* number literal, a closing `)` or a closing `]` (the postfix is applied to
\* something other than a plain identifier) never yields a Program.
C5_PostfixOnNonIdentifierRejected ==
    (/\ parsed.ran
     /\ \E i \in 1..(Len(tokens) - 1) :
            /\ tokens[i].type \in {"NUMBER", "RPAREN", "RBRACKET"}
            /\ tokens[i + 1].type \in {"LBRACKET", "LPAREN"})
        => ~parsed.ok

\* C6: a token sequence in which `=` or a compound assignment operator
\* directly follows a number literal (the left-hand side is not a plain
\* identifier) never yields a Program, whatever follows the operator.
C6_NonIdentifierTargetRejected ==
    (/\ parsed.ran
     /\ \E i \in 1..(Len(tokens) - 1) :
            /\ tokens[i].type = "NUMBER"
            /\ tokens[i + 1].type \in {"ASSIGN"} \cup CompoundAssignTokens)
        => ~parsed.ok

(***************************************************************************)
(* Claims about the symbol table (SpecTable).                              *)
(***************************************************************************)
\* The scopes of s that bind n.
Binders(s, n) == {i \in 1..Len(s) : n \in DOMAIN s[i]}

\* C9: define(name, ...) returns false and leaves the whole scope stack
\* unchanged exactly when name is already bound in the innermost scope;
\* otherwise it returns true and adds the binding to the innermost scope only,
\* every outer scope and every other binding staying as it was, even when an
\* outer scope binds the same name.
C9_DefineContract ==
    [][\A n \in DefineNames, t \in TableTypes, init \in BOOLEAN :
        TDefine(n, t, init) =>
            LET top == Len(scopes)
                bound == n \in DOMAIN scopes[top]
            IN  /\ ret'.ok = ~bound
                /\ bound => scopes' = scopes
                /\ ~bound =>
                    /\ Len(scopes') = top
                    /\ \A i \in 1..(top - 1) : scopes'[i] = scopes[i]
                    /\ DOMAIN scopes'[top] = (DOMAIN scopes[top]) \cup {n}
                    /\ \A m \in DOMAIN scopes[top] : scopes'[top][m] = scopes[top][m]
                    /\ scopes'[top][n] = Symbol(n, t, FALSE, init)]_vars

\* C9 witness: define succeeded in an inner scope while an outer scope binds
\* the same name with a different record, which is still there.
C9_Witness ==
    /\ ret.op = "define"
    /\ ret.ok
    /\ Len(scopes) >= 2
    /\ ret.name \in DOMAIN scopes[Len(scopes)]
    /\ \E i \in 1..(Len(scopes) - 1) :
        /\ ret.name \in DOMAIN scopes[i]
        /\ scopes[i][ret.name] # scopes[Len(scopes)][ret.name]

\* C10: after any sequence of enterScope, exitScope, define, update and
\* addFunctionSignature, lookup(name) returns the binding of name held by the
\* innermost scope that binds it, and reports not-found exactly when no scope
\* on the stack binds it.
C10_LookupInnermost ==
    ret.op = "lookup" =>
        LET b == Binders(scopes, ret.name)
        IN  IF b = {} THEN ~ret.ok
            ELSE /\ ret.ok
                 /\ ret.symbol = scopes[CHOOSE i \in b : \A j \in b : j <= i][ret.name]

\* C10 witness: lookup found a name that two scopes bind with different
\* records (a shadowed binding), three scopes deep.
C10_Witness ==
    /\ ret.op = "lookup"
    /\ ret.ok
    /\ Len(scopes) = 3
    /\ \E i, j \in Binders(scopes, ret.name) :
        i < j /\ scopes[i][ret.name] # scopes[j][ret.name]

\* C11: after any sequence of enterScope and exitScope calls (mixed with the
\* other calls) the scope stack holds at least one scope; exitScope called
\* when only the global scope remains changes nothing; no call removes the
\* global scope or a name it binds.
C11_GlobalScopeKept ==
    [][/\ Len(scopes') >= 1
       /\ (TExitScope /\ Len(scopes) = 1) => scopes' = scopes
       /\ TExitScope => Len(scopes') = (IF Len(scopes) > 1 THEN Len(scopes) - 1 ELSE 1)
       /\ DOMAIN scopes[1] \subseteq DOMAIN scopes'[1]
       /\ (TEnterScope \/ TExitScope) => scopes'[1] = scopes[1]]_vars

\* C11 witness: exitScope was called and only the global scope remains, which
\* still holds the builtins and a variable defined in it.
C11_Witness ==
    /\ ret.op = "exitScope"
    /\ Len(scopes) = 1
    /\ "x" \in DOMAIN scopes[1]
    /\ ~scopes[1]["x"].isFunction
    /\ DOMAIN NewSymbolTable[1] \subseteq DOMAIN scopes[1]

\* C12: addFunctionSignature(name, params, returnType) writes the function
\* record into the global scope at any stack depth, replacing an earlier
\* global entry of that name, and leaves every non-global scope and every
\* other global entry unchanged.
C12_SignatureIntoGlobalScope ==
    [][\A n \in SignatureNames, p \in TableParams :
        TAddFunctionSignature(n, p, DT_VOID) =>
            /\ Len(scopes') = Len(scopes)
            /\ \A i \in 2..Len(scopes) : scopes'[i] = scopes[i]
            /\ DOMAIN scopes'[1] = (DOMAIN scopes[1]) \cup {n}
            /\ \A m \in (DOMAIN scopes[1]) \ {n} : scopes'[1][m] = scopes[1][m]
            /\ scopes'[1][n] = [name |-> n, type |-> DT_VOID, isFunction |-> TRUE,
                                isInitialized |-> TRUE, paramTypes |-> p,
                                returnType |-> DT_VOID]]_vars

\* C12 witness: addFunctionSignature was called three scopes deep on a name
\* that an inner scope binds as a variable: the global scope holds the
\* function record, the inner scope still the variable.
C12_Witness ==
    /\ ret.op = "addFunctionSignature"
    /\ Len(scopes) = 3
    /\ ret.name \in DOMAIN scopes[1]
    /\ scopes[1][ret.name].isFunction
    /\ scopes[1][ret.name].paramTypes = <<DT_UNKNOWN>>
    /\ \E i \in 2..3 : ret.name \in DOMAIN scopes[i] /\ ~scopes[i][ret.name].isFunction

(***************************************************************************)
(* Claims about the analyzer (SpecCalls, SpecAnalyze).                     *)
(***************************************************************************)
\* The diagnostics a step added.
Added == SubSeq(errors', Len(errors) + 1, Len(errors'))

Has(es, kind, name) == \E i \in 1..Len(es) : es[i].kind = kind /\ es[i].name = name

Count(es, kind, name) ==
    Cardinality({i \in 1..Len(es) : es[i].kind = kind /\ es[i].name = name})

\* C1: for every program that declares no function named main, analyze
\* returns false and the diagnostic list holds the missing-entry-point
\* diagnostic, whatever else the program declares.
C1_MissingMainReported ==
    (pc = "done" /\ "main" \notin DOMAIN declared) =>
        (result = FALSE /\ Has(errors, "MainNotFound", "main"))

\* C2: a call to a function the program declares analyzes without an
\* 'Undefined function' diagnostic, whether the traversal reaches the call
\* before or after the declaration.
C2_NoForwardDeclarationNeeded ==
    pc = "done" =>
        \A i \in 1..Len(errors) :
            errors[i].kind = "UndefinedFunction" => errors[i].name \notin DOMAIN declared

\* The identifiers directly inside a literal that no scope binds.
UnboundElements(e, s) ==
    {e.kids[i].name : i \in {j \in 1..Len(e.kids) :
        e.kids[j].k = "Identifier" /\ Binders(s, e.kids[j].name) = {}}}

\* C3: every element expression of an array literal and every member
\* expression of an object literal is analyzed: an undefined name inside one
\* produces its diagnostic, while the literal itself yields Array or Object
\* (here: as a declaration's initializer and as an expression statement).
C3_LiteralElementsAnalyzed ==
    [][/\ \A n \in VarNames, e \in Initializers :
            (e.k \in {"ArrayLiteral", "ObjectLiteral"}
             /\ AnalyzeVariableDeclaration(n, e)) =>
                \A y \in UnboundElements(e, scopes) :
                    Has(Added, "UndefinedVariable", y)
       /\ \A e \in Expressions :
            (e.k \in {"ArrayLiteral", "ObjectLiteral"}
             /\ AnalyzeExpressionStatement(e)) =>
                \A y \in UnboundElements(e, scopes) :
                    Has(Added, "UndefinedVariable", y)]_vars

ArityKinds == {"FunctionArity", "BuiltinArity", "NikalArity"}

\* C7: for a call that resolves to a function the program declared with
\* `kaam`, an arity diagnostic is recorded exactly when the number of call
\* arguments differs from the number of parameters of that declaration, and
\* every argument is analyzed for its own diagnostics; for every declared name.
C7_UserCallArity ==
    [][\A e \in Calls :
        (/\ AnalyzeExpressionStatement(e)
         /\ e.name \in DOMAIN declared
         /\ Lookup(scopes, e.name, NoSymbol).found
         /\ Lookup(scopes, e.name, NoSymbol).symbol.isFunction) =>
            /\ (\E i \in 1..Len(Added) :
                    Added[i].kind \in ArityKinds /\ Added[i].name = e.name)
                <=> (Len(e.kids) # declared[e.name])
            /\ \A y \in UnboundElements(e, scopes) :
                    Has(Added, "UndefinedVariable", y)]_vars

\* C8: a variable declaration whose name is already bound in the innermost
\* scope records exactly one 'already defined' diagnostic, and one whose name
\* is bound only in outer scopes (or nowhere) records none; the diagnostics
\* recorded before stay, the traversal goes on, and a later statement that
\* uses an undefined name still gets its own diagnostic.
C8_RedeclarationDiagnostic ==
    [][/\ \A n \in VarNames, e \in Initializers :
            AnalyzeVariableDeclaration(n, e) =>
                /\ Count(errors', "AlreadyDefined", n) =
                    Count(errors, "AlreadyDefined", n)
                    + (IF n \in DOMAIN scopes[Len(scopes)] THEN 1 ELSE 0)
                /\ SubSeq(errors', 1, Len(errors)) = errors
                /\ pc' = "run"
       /\ (AnalyzeExpressionStatement(Identifier("y"))
           /\ \E n \in VarNames : Has(errors, "AlreadyDefined", n)) =>
                errors' = Append(errors, Err("UndefinedVariable", "y", "", "", 0, 0))
      ]_vars

\* C8 witness: a redeclaration was diagnosed once, a later statement's
\* diagnostic follows it, and x is declared in two scopes at once (shadowing).
C8_Witness ==
    /\ Len(errors) = 2
    /\ errors[1].kind = "AlreadyDefined"
    /\ errors[2].kind = "UndefinedVariable"
    /\ \E i, j \in Binders(scopes, "x") : i < j

\* C13: analyze returns true exactly when the diagnostic list is empty when it
\* returns: never true with a diagnostic recorded, never false with none.
C13_ResultIffNoDiagnostics ==
    pc = "done" => (result <=> errors = <<>>)

\* C13 witness: analyze returned true for a program that declares main and
\* other names, with nothing recorded.
C13_Witness ==
    /\ pc = "done"
    /\ result
    /\ errors = <<>>
    /\ DOMAIN declared = {"main", "x"}

RECURSIVE OfKind(_, _)
\* The diagnostics of es of one kind, in order.
OfKind(es, kind) ==
    IF es = <<>> THEN <<>>
    ELSE IF Head(es).kind = kind THEN <<Head(es)>> \o OfKind(Tail(es), kind)
    ELSE OfKind(Tail(es), kind)

\* The type of an operand by its form: a Number or String literal, the
\* undeclared y (Unknown), a call of f() (Void once f is declared: declared
\* return types are never inferred; Unknown while f is undeclared).
OperandType(e) ==
    CASE e.k = "NumberLiteral" -> DT_NUMBER
      [] e.k = "StringLiteral" -> DT_STRING
      [] e.k = "BooleanLiteral" -> DT_BOOLEAN
      [] e.k = "FunctionCall" -> IF Binders(scopes, e.name) # {} THEN DT_VOID ELSE DT_UNKNOWN
      [] OTHER -> DT_UNKNOWN

\* The record of n in the innermost scope that binds it.
Visible(n) == scopes[CHOOSE i \in Binders(scopes, n) : \A j \in Binders(scopes, n) : j <= i][n]

\* C14: an assignment to a visible variable records exactly one type-mismatch
\* diagnostic, naming the variable, its recorded type and the value's type,
\* when both types are different from Unknown and differ from each other, and
\* no mismatch otherwise (so a String assigned to a variable initialized with
\* a Number gives one mismatch: expected number, got string).
C14_AssignmentMismatch ==
    [][\A v \in AssignValues :
        (AnalyzeExpressionStatement(Assignment("x", v)) /\ Binders(scopes, "x") # {}) =>
            LET expected == Visible("x").type
                actual == OperandType(v)
            IN  OfKind(Added, "TypeMismatch") =
                    IF expected # DT_UNKNOWN /\ actual # DT_UNKNOWN /\ expected # actual
                    THEN <<Err("TypeMismatch", "x", expected, actual, 0, 0)>>
                    ELSE <<>>]_vars

\* C14 witness: x was initialized with a Number and assigned a String in the
\* same scope, inside a function body: the one diagnostic recorded is the
\* mismatch expected number, got string.
C14_Witness ==
    /\ errors = <<Err("TypeMismatch", "x", DT_NUMBER, DT_STRING, 0, 0)>>
    /\ Len(scopes) = 2
    /\ Binders(scopes, "x") = {2}
    /\ scopes[2]["x"].type = DT_NUMBER

\* The type of a condition by its form: `1 + 2` is a Number, the rest as
\* OperandType.
ConditionType(e) == IF e.k = "BinaryOp" THEN DT_NUMBER ELSE OperandType(e)

\* C15: an if or loop statement records exactly one condition type-mismatch
\* diagnostic, naming the condition's type, when its condition synthesizes to
\* a type other than Boolean, Unknown or Void (e.g. `agar (1 + 2) { }`), and
\* none when the condition is Boolean, Unknown or Void.
C15_ConditionMismatch ==
    [][\A e \in ConditionExpressions :
        LET lenient == ConditionType(e) \in {DT_BOOLEAN, DT_UNKNOWN, DT_VOID}
        IN  /\ AnalyzeIfStatementEnter(e) =>
                /\ OfKind(Added, "IfCondition") =
                    (IF lenient THEN <<>>
                     ELSE <<Err("IfCondition", "", ConditionType(e), "", 0, 0)>>)
                /\ OfKind(Added, "LoopCondition") = <<>>
            /\ AnalyzeLoopStatementEnter(e) =>
                /\ OfKind(Added, "LoopCondition") =
                    (IF lenient THEN <<>>
                     ELSE <<Err("LoopCondition", "", ConditionType(e), "", 0, 0)>>)
                /\ OfKind(Added, "IfCondition") = <<>>]_vars

\* C15 witness: inside the body of f, an if on `1 + 2` was analyzed and a loop
\* (on a lenient condition) entered after it: the one diagnostic is the if's,
\* got number.
C15_Witness ==
    /\ errors = <<Err("IfCondition", "", DT_NUMBER, "", 0, 0)>>
    /\ Len(ctx) = 2
    /\ ctx[1].kind = "function"
    /\ ctx[2].kind = "loop"

\* C16: a call to the builtin pow, max or min records an arity diagnostic
\* when it has any number of arguments other than two (and nothing else), and
\* no diagnostic at all when it has exactly two arguments that are both
\* Numbers.
C16_TwoArgumentBuiltins ==
    [][\A e \in BuiltinCalls :
        AnalyzeExpressionStatement(e) =>
            /\ Len(e.kids) # 2 => Added = <<Err("BuiltinArity", e.name, "", "", 2, 0)>>
            /\ Len(e.kids) = 2 =>
                /\ OfKind(Added, "BuiltinArity") = <<>>
                /\ (\A i \in 1..2 : OperandType(e.kids[i]) = DT_NUMBER) => Added = <<>>
       ]_vars

\* C16 witness: in the body of main, a builtin was called with a wrong number
\* of arguments (one diagnostic) and the builtins were then called with two
\* Numbers (nothing added): analyze returned with that one diagnostic.
C16_Witness ==
    /\ pc = "done"
    /\ Len(errors) = 1
    /\ errors[1].kind = "BuiltinArity"
    /\ errors[1].name = "pow"

\* C17: an arithmetic operator records no operand diagnostic for an operand
\* whose type is Number, Unknown or Void, one for any other operand, and
\* always yields Number (the type the declared variable gets): so the body of
\* f can use the result of a call of f (Void) as an arithmetic operand.
C17_ArithmeticAcceptsVoid ==
    [][\A e \in Arithmetic :
        AnalyzeVariableDeclaration("r", e) =>
            LET accepted == {DT_NUMBER, DT_UNKNOWN, DT_VOID}
                top == Len(scopes)
            IN  /\ OfKind(Added, "LeftOperandNumber") =
                    (IF OperandType(e.kids[1]) \in accepted THEN <<>>
                     ELSE <<Err("LeftOperandNumber", e.op, "", "", 0, 0)>>)
                /\ OfKind(Added, "RightOperandNumber") =
                    (IF OperandType(e.kids[2]) \in accepted THEN <<>>
                     ELSE <<Err("RightOperandNumber", e.op, "", "", 0, 0)>>)
                /\ scopes'[top]["r"].type = DT_NUMBER]_vars

\* C17 witness: in the body of f, where a call of f is Void, r was declared
\* with an arithmetic initializer, got type Number, and nothing was recorded.
C17_Witness ==
    /\ errors = <<>>
    /\ Len(ctx) = 1
    /\ ctx[1].kind = "function"
    /\ "f" \in DOMAIN scopes[1]
    /\ Len(scopes) = 2
    /\ "r" \in DOMAIN scopes[2]
    /\ scopes[2]["r"].type = DT_NUMBER

\* The statement being analyzed is lexically inside a function body.
InsideFunctionBody == \E i \in 1..Len(ctx) : ctx[i].kind = "function"

\* C18: a return statement records the 'outside function' diagnostic exactly
\* when it is not lexically inside any function body: a return nested in if
\* and loop bodies inside a function records none (and its value is
\* analyzed), and a return after a nested function declaration has ended is
\* judged by the enclosing context.
C18_ReturnOutsideFunction ==
    [][\A v \in ReturnValues :
        AnalyzeReturnStatement(v) =>
            Added = (IF ~InsideFunctionBody
                     THEN <<Err("ReturnOutsideFunction", "", "", "", 0, 0)>>
                     ELSE IF v.k = "Identifier"
                     THEN <<Err("UndefinedVariable", v.name, "", "", 0, 0)>>
                     ELSE <<>>)]_vars

\* C18 witness: a `wapas y;` inside the body of f recorded the value's
\* diagnostic only, then a return after f had ended recorded 'outside
\* function', and the walk is inside an if at top level.
C18_Witness ==
    /\ Len(errors) = 2
    /\ errors[1].kind = "UndefinedVariable"
    /\ errors[2].kind = "ReturnOutsideFunction"
    /\ "f" \in DOMAIN declared
    /\ Len(ctx) = 1
    /\ ctx[1].kind = "then"

(***************************************************************************)
(* Claims about the lexer (SpecLexerFair).                                 *)
(***************************************************************************)
\* C19: for every source text nextToken reaches end-of-input after finitely
\* many calls: a call that returns a token other than end-of-input strictly
\* advances the position, the position never exceeds the source length, once
\* end-of-input was returned another call returns it again and leaves the
\* position unchanged, and end-of-input is eventually returned.
C19_LexerReachesEndOfInput ==
    /\ [][NextToken =>
            /\ lexed'.type # "EOF_TOKEN" => lexer'.pos > lexer.pos
            /\ lexed'.type = "EOF_TOKEN" => lexer'.pos = Len(source)
            /\ lexer'.pos <= Len(source)]_vars
    /\ [](lexed.type = "EOF_TOKEN" =>
            /\ NextTokenFrom(lexer).token.type = "EOF_TOKEN"
            /\ NextTokenFrom(lexer).lexer.pos = lexer.pos)
    /\ <>(lexed.type = "EOF_TOKEN")

\* C19 witness: end-of-input was returned at the end of a text of three
\* characters that ends in an unterminated string.
C19_Witness ==
    /\ lexed.type = "EOF_TOKEN"
    /\ Len(source) = 3
    /\ source[2] = "\""
    /\ source[3] = "a"
    /\ lexer.pos = 3

(***************************************************************************)
(* Claims about operator precedence (SpecPrecedence).                      *)
(***************************************************************************)
\* The binding strength of a binary operator token: logical-or is weakest.
Strength(type) ==
    CASE type = "OR" -> 1
      [] type = "AND" -> 2
      [] type \in {"EQ", "NE"} -> 3
      [] type \in {"LT", "LE", "GT", "GE"} -> 4
      [] type \in {"PLUS", "MINUS"} -> 5
      [] type \in {"STAR", "SLASH", "PERCENT"} -> 6

\* The positions in lo..hi of the operators in binary position: those that
\* follow the end of an operand (an index holds no operator here).
BinaryPositions(lo, hi) ==
    {i \in (lo + 1)..hi :
        /\ tokens[i].type \in {t.type : t \in OperatorTokens}
        /\ tokens[i - 1].type \in {"IDENTIFIER", "RBRACKET"}}

RECURSIVE Grouping(_, _)
\* The tree the level order prescribes for tokens lo..hi: the root is the
\* rightmost of the weakest binary operators (so equal levels group to the
\* left); without a binary operator, a unary minus applies to all that
\* follows it, and an index applies to the name before it.
Grouping(lo, hi) ==
    IF BinaryPositions(lo, hi) # {} THEN
        LET b == BinaryPositions(lo, hi)
            root == CHOOSE i \in b : \A j \in b :
                        \/ Strength(tokens[i].type) < Strength(tokens[j].type)
                        \/ Strength(tokens[i].type) = Strength(tokens[j].type) /\ j <= i
        IN  BinaryOp(Grouping(lo, root - 1), tokens[root].value, Grouping(root + 1, hi))
    ELSE IF tokens[lo].type = "MINUS" THEN UnaryOp("-", Grouping(lo + 1, hi))
    ELSE IF lo < hi THEN ArrayAccess(tokens[lo].value, Grouping(lo + 2, hi - 1))
    ELSE Identifier(tokens[lo].value)

\* C20: binary operators group by the level order logical-or < logical-and <
\* equality < relational < additive < multiplicative < unary < postfix, and
\* operators of one level group to the left: every expression statement
\* parses, to the tree that order prescribes (`a - b - c` as (a - b) - c,
\* `a + b * c` as a + (b * c), `a || b && c` as a || (b && c), `-a * b` as
\* (-a) * b), for all operand names.
C20_PrecedenceAndAssociativity ==
    (parsed.ran /\ LastLexeme = "SEMICOLON") =>
        /\ parsed.ok
        /\ parsed.statements = <<ExpressionStatement(Grouping(1, Len(tokens) - 2))>>

\* C20 witness: `a - b * -a[b];` parsed.
C20_Witness ==
    /\ parsed.ran
    /\ parsed.ok
    /\ [i \in 1..Len(tokens) |-> tokens[i].type] =
        <<"IDENTIFIER", "MINUS", "IDENTIFIER", "STAR", "MINUS", "IDENTIFIER",
          "LBRACKET", "IDENTIFIER", "RBRACKET", "SEMICOLON", "EOF_TOKEN">>
    /\ parsed.statements[1].expr.op = "-"
    /\ parsed.statements[1].expr.kids[2].op = "*"

\* C21: every parse error carries a message and the source line of the
\* offending token, whichever kind of syntax error raised it (a missing
\* delimiter, an invalid assignment target, a missing expression).
C21_ParseErrorCarriesLine ==
    (parsed.ran /\ ~parsed.ok) => (parsed.msg # "" /\ parsed.line # NoLine)

\* C22: during analysis every scope push is matched by one pop: while a
\* statement is analyzed the scope stack holds the global scope plus one scope
\* per enclosing function body, if-branch and loop body, and once analyze has
\* returned it holds the global scope alone, whatever diagnostics were
\* recorded and wherever a return statement returned early.
C22_ScopesBalanced ==
    /\ pc = "run" => Len(scopes) = 1 + Len(ctx)
    /\ pc = "done" => (Len(scopes) = 1 /\ "dekh" \in DOMAIN scopes[1])

\* C22 witness: analyze has returned from a program whose if (on the number 1)
\* and top-level return statement each left a diagnostic, and that declares
\* main.
C22_Witness ==
    /\ pc = "done"
    /\ Has(errors, "IfCondition", "")
    /\ Has(errors, "ReturnOutsideFunction", "")
    /\ "main" \in DOMAIN scopes[1]
    /\ Len(scopes) = 1

\* The call of nextToken that starts at lx0 scans the last character of the
\* source, and that character is an operator-prefix character.
OperatorPrefixLast(lx0) ==
    LET lx == SkipWhitespaceAndComments(lx0)
    IN  /\ lx.pos + 1 = Len(source)
        /\ SourceAt(lx.pos) \in LookaheadCharacters

\* The type of the token that is an operator-prefix character alone.
SingleCharacterToken(ch) ==
    CASE ch = "+" -> "PLUS"
      [] ch = "-" -> "MINUS"
      [] ch = "*" -> "STAR"
      [] ch = "/" -> "SLASH"
      [] ch = "=" -> "ASSIGN"
      [] ch = "!" -> "NOT"
      [] ch = "<" -> "LT"
      [] ch = ">" -> "GT"
      [] OTHER -> "UNKNOWN"

\* C23: when an operator-prefix character (+ - * / = ! < > & |) is the last
\* character of the source, the lookahead of the nextToken call that scans it
\* reads the source at no index greater than or equal to the source length,
\* and the call returns the single-character token of that character.
C23_LookaheadInBounds ==
    [][(NextToken /\ OperatorPrefixLast(lexer)) =>
            /\ LookaheadIndex(lexer) < Len(source)
            /\ lexed'.value = source[Len(source)]
            /\ lexed'.type = SingleCharacterToken(source[Len(source)])
            /\ lexer'.pos = Len(source)]_vars

\* Scope i of the stack is not popped by the step: it is the global scope, or
\* the body or branch it belongs to stays open.
KeptScope(i) ==
    \/ i = 1
    \/ /\ i - 1 <= Len(ctx')
       /\ ctx'[i - 1].kind = ctx[i - 1].kind

\* The variables bound in scope i before the step.
VariablesOf(i) == {n \in DOMAIN scopes[i] : ~scopes[i][n].isFunction}

\* The step leaves the type and isFunction flag of the record of n in scope i.
SameRecord(i, n) ==
    /\ n \in DOMAIN scopes'[i]
    /\ scopes'[i][n].type = scopes[i][n].type
    /\ scopes'[i][n].isFunction = scopes[i][n].isFunction

\* C24 as stated: once a variable is defined in a scope, the type and
\* isFunction flag of its record stay unchanged until that scope is popped: no
\* assignment, variable declaration or function declaration, at any nesting
\* depth, alters or replaces the record, in the global scope as well as in
\* nested scopes.
C24_VariableRecordKept ==
    [][\A i \in 1..Len(scopes) : \A n \in VariablesOf(i) :
            KeptScope(i) => SameRecord(i, n)]_vars

\* C24 amended: the record of a variable keeps its type and isFunction flag
\* until its scope is popped, under every assignment and variable declaration
\* and under every function declaration but one of the variable's own name
\* when the variable is in the global scope: that declaration, at any nesting
\* depth, replaces the global record by the function's (a function of type
\* Void); records in nested scopes are never altered.
C24_VariableRecordKeptButGlobalSignature ==
    [][\A i \in 1..Len(scopes) : \A n \in VariablesOf(i) :
            KeptScope(i) =>
                IF i = 1 /\ \E ps \in RecordParams : AnalyzeFunctionDeclarationEnter(n, ps)
                THEN /\ scopes'[1][n].isFunction
                     /\ scopes'[1][n].type = DT_VOID
                ELSE SameRecord(i, n)]_vars

\* C24 witness: `banao x = 1; x = "s"; kaam x(x) {` analyzed: the assignment met
\* the Number variable x, the declaration made the global x a function, and
\* in the body x is the parameter, a variable of its own scope.
C24_Witness ==
    /\ errors = <<Err("TypeMismatch", "x", DT_NUMBER, DT_STRING, 0, 0)>>
    /\ Len(scopes) = 2
    /\ scopes[1]["x"].isFunction
    /\ "x" \in DOMAIN scopes[2]
    /\ ~scopes[2]["x"].isFunction

====
